---- MODULE Spec2Model ----
(***************************************************************************)
(* Model of the coder-openapi model execution and lifecycle engine:        *)
(*   - ModelManager (src/src/service/models/mod.rs): status map, the two   *)
(*     model slots and the three tokio RwLocks that guard them;            *)
(*   - the asset loader (yi_coder/loader.rs, utils/download.rs) and the    *)
(*     model entities built by download_model;                             *)
(*   - ChatCompletionService::complete, which builds a model per request;  *)
(*   - the two infer implementations of Yi-Coder (infer.rs, yi_coder.rs).  *)
(***************************************************************************)
EXTENDS Integers, Sequences, FiniteSets, TLC

\* ------------------------------------------------------------------ bounds
NProcs == 2
MaxInst == 2
MaxDiskOps == 1

Procs == 1..NProcs

\* --------------------------------------------------------- program constants
ModelIds == {"yi-coder", "deepseek-coder"}
RequestIds == ModelIds \cup {"not-a-model"}

yi_coder_files ==
    {"model.safetensors", "config.json", "tokenizer.model",
     "tokenizer_config.json", "tokenizer.json", "generation_config.json"}

deepseek_coder_files ==
    {"model-00001-of-000004.safetensors", "model-00002-of-000004.safetensors",
     "model-00003-of-000004.safetensors", "model-00004-of-000004.safetensors",
     "config.json", "tokenizer.json", "tokenizer_config.json",
     "generation_config.json"}

\* The file set refresh_status_from_disk probes for a model id.
RequiredFiles(id) ==
    IF id = "yi-coder" THEN yi_coder_files ELSE deepseek_coder_files

AllPaths ==
    {<<"yi-coder", f>> : f \in yi_coder_files}
        \cup {<<"deepseek-coder", f>> : f \in deepseek_coder_files}

\* str::ends_with(".safetensors") on the file names that occur.
EndsWithSafetensors(f) ==
    f \in {"model.safetensors",
           "model-00001-of-000004.safetensors", "model-00002-of-000004.safetensors",
           "model-00003-of-000004.safetensors", "model-00004-of-000004.safetensors"}

\* str::ends_with(".model")
EndsWithModel(f) == f = "tokenizer.model"

VARIABLES
    disk,            \* set of <<model id, file name>> present under models_cache
    tokenizerEntry,  \* model_files.tokenizer of the yi-coder manifest entry
    hyperInManifest, \* TRUE iff the manifest sets all five hyperparameters
    diskOps,         \* number of file creations/deletions done by the environment
    model_status,    \* ModelManager.model_status
    slot,            \* ModelManager.yi_coder / deepseek_coder: 0 = None, n = instance n
    locks,           \* the three RwLocks: writer, readers, FIFO wait queue
    nextInst,        \* next model instance to be constructed
    pc,              \* position of each task in the handler it runs
    arg,             \* model id the running handler was called with
    held,            \* instance constructed and owned by a chat completion, 0 = none
    downloaded       \* history: ids for which download_model returned Ok(())

mgrVars == <<disk, tokenizerEntry, hyperInManifest, diskOps, model_status, slot,
             locks, nextInst, pc, arg, held, downloaded>>

VARIABLES
    impl,            \* which infer implementation the call runs
    params,          \* the parameters of the infer call
    ipc,             \* position of the infer call
    sender,          \* YiCoderInference.sender is Some
    tokenized,       \* number of tokenizer passes over the input messages
    forwards,        \* number of transformer forward passes
    logitsSeq,       \* generated tokens in the sequence `logits` was computed over
    samples,         \* number of tokens sampled
    generated,       \* generated_tokens of the streaming loop
    sendAttempts,    \* number of pushes attempted on the stream channel
    chan,            \* fragments in the bounded stream channel
    chanClosed,      \* the consumer dropped its receiver
    output,          \* content of the message being built, as tokens
    returned,        \* number of messages in the list returned
    result           \* outcome of the call

inferVars == <<impl, params, ipc, sender, tokenized, forwards, logitsSeq, samples,
               generated, sendAttempts, chan, chanClosed, output, returned, result>>

VARIABLES
    wrapped,         \* the App was built with .wrap(Authentication)
    handler,         \* the controller function that serves POST /chat/completions
    api_key_env,     \* the process environment variable API_KEY
    http_req,        \* the request being served
    hpc,             \* position of the request in the middleware / handler chain
    auth_seen,       \* what std::env::var("API_KEY") returned to the middleware
    response,        \* status code of the response, 0 = none yet
    err,             \* the error the handler got from the service, "none" = none
    crashed,         \* the handler panicked
    invoked,         \* the service wrapped by the middleware was called
    lookedUp         \* a model was looked up, constructed or run for the request

httpVars == <<wrapped, handler, api_key_env, http_req, hpc, auth_seen, response,
              err, crashed, invoked, lookedUp>>

VARIABLES
    store,           \* the names of the tensors in the weight store (VarBuilder)
    num_layers,      \* config.num_layers
    transformer,     \* the result of YiCoderTransformer::new
    fpc,             \* position of the forward call
    fi,              \* index of the layer / chunk at hand
    nchunks,         \* number of chunks the hidden states are split into
    hidden,          \* NaN / infinite / finite content of hidden_states
    ferr,            \* the error the forward call returned
    seen             \* the validate_tensor checks of the call, in order

tfVars == <<store, num_layers, transformer, fpc, fi, nchunks, hidden, ferr, seen>>

VARIABLES
    manifest_hyper,  \* the hyperparameter fields of the manifest entry
    config_json,     \* the model's config.json: whether it exists, its members
    model_config     \* the result of get_model_config

cfgVars == <<manifest_hyper, config_json, model_config>>

VARIABLES
    stream_sender,   \* the sender slot of the shared YiCoderInference
    rpc,             \* position of each streaming request
    cloned,          \* the sender each request's infer took from the slot
    rchan            \* the channel of each request: the producers of its fragments

strVars == <<stream_sender, rpc, cloned, rchan>>

extVars == <<tfVars, cfgVars, strVars>>

vars == <<mgrVars, inferVars, httpVars, extVars>>

\* ------------------------------------------------------------ tokio RwLock
Locks == {"model_status", "yi_coder", "deepseek_coder"}

SlotLock(id) == IF id = "yi-coder" THEN "yi_coder" ELSE "deepseek_coder"

FreeLock == [w |-> 0, r |-> {}, q |-> <<>>]

\* A lock that hands out a permit whenever no writer holds it, readers or not.
CompatibleIgnoringReaders(s, mode) == s.w = 0

\* Permits are available for a request of this mode.
Compatible(s, mode) ==
    IF mode = "write" THEN s.w = 0 /\ s.r = {} ELSE s.w = 0

Grant(s, p, mode) ==
    IF mode = "write" THEN [s EXCEPT !.w = p] ELSE [s EXCEPT !.r = @ \cup {p}]

\* read().await / write().await: taken at once when the permits are free and
\* nobody is queued, otherwise the task joins the FIFO queue.
AcquireLock(s, p, mode) ==
    IF s.q = <<>> /\ Compatible(s, mode)
    THEN Grant(s, p, mode)
    ELSE [s EXCEPT !.q = Append(@, [p |-> p, mode |-> mode])]

RECURSIVE Wake(_)
\* Released permits are handed to the queued tasks in FIFO order.
Wake(s) ==
    IF s.q = <<>> \/ ~Compatible(s, Head(s.q).mode)
    THEN s
    ELSE Wake(Grant([s EXCEPT !.q = Tail(@)], Head(s.q).p, Head(s.q).mode))

\* A guard dropped without the queued tasks being woken.
ReleaseLockNoWake(s, p) ==
    [s EXCEPT !.w = IF @ = p THEN 0 ELSE @, !.r = @ \ {p}]

\* Dropping a guard.
ReleaseLock(s, p) ==
    Wake([s EXCEPT !.w = IF @ = p THEN 0 ELSE @, !.r = @ \ {p}])

Holds(s, p, mode) == IF mode = "write" THEN s.w = p ELSE p \in s.r

Waiting(s, p) == \E i \in 1..Len(s.q) : s.q[i].p = p

\* ------------------------------------------------------------ asset loader
\* The model_files entry of the manifest (config/app.yml) for a model id.
Manifest(id, tok) ==
    IF id = "yi-coder"
    THEN [weights |-> <<"model.safetensors">>,
          config |-> "config.json",
          tokenizer |-> tok,
          tokenizer_config |-> "tokenizer_config.json",
          generation_config |-> "generation_config.json"]
    ELSE [weights |-> <<"model-00001-of-000004.safetensors",
                        "model-00002-of-000004.safetensors",
                        "model-00003-of-000004.safetensors",
                        "model-00004-of-000004.safetensors">>,
          config |-> "config.json",
          tokenizer |-> "tokenizer.json",
          tokenizer_config |-> "tokenizer_config.json",
          generation_config |-> "generation_config.json"]

\* AppConfig::get_model_config succeeds: the id has a manifest entry and, when
\* a hyperparameter is absent, the cached config.json can be opened.
GetModelConfigOk(d, id, tok, hyper) ==
    /\ id \in ModelIds
    /\ (hyper \/ <<id, Manifest(id, tok).config>> \in d)

\* The files ModelLoader::new looks at, in the order it looks at them.
model_paths(id, tok) ==
    LET m == Manifest(id, tok)
    IN  SelectSeq(m.weights, EndsWithSafetensors)
            \o (IF EndsWithModel(m.tokenizer) THEN <<m.tokenizer>> ELSE <<>>)
            \o <<m.config, m.tokenizer_config, m.generation_config>>

files_to_download(d, id, tok) ==
    SelectSeq(model_paths(id, tok), LAMBDA f : <<id, f>> \notin d)

\* Outcome of the loop of download_all_model_files: fetched are the files
\* copied into the cache, attempted every repo.get call in order.
DownloadResult(ok, d, fetched, attempted) ==
    [ok |-> ok, disk |-> d, fetched |-> fetched, attempted |-> attempted]

\* A failing fetch that is tried a second time before giving up.
FetchFailedRetry(d, fetched, attempted, f) ==
    DownloadResult(FALSE, d, fetched, attempted \o <<f, f>>)

\* `repo.get(file)?` fails: the error leaves the function at once.
FetchFailed(d, fetched, attempted, f) ==
    DownloadResult(FALSE, d, fetched, Append(attempted, f))

\* A loop that fetches every listed file, cached or not.
local_path_exists_ignored(d, id, f) == FALSE

\* `local_path.exists()` of the loop body.
local_path_exists(d, id, f) == <<id, f>> \in d

RECURSIVE DownloadLoop(_, _, _, _, _, _)
\* The `for file in files` loop where the first k hub fetches succeed and the
\* (k+1)-th fails.
DownloadLoop(d, id, files, k, fetched, attempted) ==
    IF files = <<>>
    THEN DownloadResult(TRUE, d, fetched, attempted)
    ELSE LET f == Head(files)
         IN  IF local_path_exists(d, id, f)
             THEN DownloadLoop(d, id, Tail(files), k, fetched, attempted)
             ELSE IF k = 0
                  THEN FetchFailed(d, fetched, attempted, f)
                  ELSE DownloadLoop(d \cup {<<id, f>>}, id, Tail(files), k - 1,
                                    Append(fetched, f), Append(attempted, f))

\* ModelDownloader::download_all_model_files where the first k hub fetches
\* succeed: every fetched file is copied into the cache, the (k+1)-th fetch
\* fails and ends the call.
download_all_model_files(d, id, files, k) ==
    DownloadLoop(d, id, files, k, <<>>, <<>>)

\* ModelLoader::new
ModelLoaderNew(d, id, tok, hyper, k) ==
    IF ~GetModelConfigOk(d, id, tok, hyper)
    THEN DownloadResult(FALSE, d, <<>>, <<>>)
    ELSE LET files == files_to_download(d, id, tok)
         IN  IF files = <<>>
             THEN DownloadResult(TRUE, d, <<>>, <<>>)
             ELSE download_all_model_files(d, id, files, k)

\* YiCoderModel::new: ModelLoader::new, then loader.load() which opens and
\* parses every weight container (parseOk: the containers are well formed).
YiCoderModelNew(d, tok, hyper, k, parseOk) ==
    LET l == ModelLoaderNew(d, "yi-coder", tok, hyper, k)
        weights == {f \in yi_coder_files :
                       \E i \in 1..Len(model_paths("yi-coder", tok)) :
                           /\ model_paths("yi-coder", tok)[i] = f
                           /\ EndsWithSafetensors(f)}
    IN  [ok |-> l.ok /\ parseOk /\ \A f \in weights : <<"yi-coder", f>> \in l.disk,
         disk |-> l.disk,
         fetched |-> l.fetched]

\* DeepseekCoderModel::new: reads weights[0] of its own config; fetches nothing.
DeepSeekCoderModelNew(d, parseOk) ==
    [ok |-> parseOk /\ <<"deepseek-coder", "model-00001-of-000004.safetensors">> \in d,
     disk |-> d,
     fetched |-> <<>>]

ModelNew(id, d, tok, hyper, k, parseOk) ==
    IF id = "yi-coder"
    THEN YiCoderModelNew(d, tok, hyper, k, parseOk)
    ELSE DeepSeekCoderModelNew(d, parseOk)

\* Number of hub fetches a construction of id may attempt.
MaxFetches(d, id, tok) ==
    IF id = "yi-coder" THEN Len(files_to_download(d, id, tok)) ELSE 0

\* ------------------------------------------------------------ ModelManager
ModelStatus(c, e) == [is_cached |-> c, is_enabled |-> e]

any_exists(d, id) == \E f \in RequiredFiles(id) : <<id, f>> \in d

all_exists(d, id) == \A f \in RequiredFiles(id) : <<id, f>> \in d

\* refresh_status_from_disk: both entries are re-inserted from the probes.
refresh_status_from_disk(st, d) ==
    [id \in DOMAIN st \cup ModelIds |-> ModelStatus(any_exists(d, id), all_exists(d, id))]

\* ModelManager::new: the refresh, then both entries overwritten.
ManagerNewStatus(d) ==
    [id \in DOMAIN refresh_status_from_disk(<<>>, d) \cup ModelIds |->
        ModelStatus(FALSE, FALSE)]

\* A download_model that sets both flags before the constructor has returned.
StatusAfterDownloadEager(entry, ok) == ModelStatus(TRUE, TRUE)

\* The status entry download_model leaves for the id it was called with.
StatusAfterDownload(entry, ok) ==
    IF ok THEN ModelStatus(TRUE, TRUE) ELSE entry

\* A download_model that stores into the slot whatever the constructor returned.
SlotAfterDownloadEager(old, ok, inst) == inst

\* The slot download_model leaves: the `?` returns before the assignment.
SlotAfterDownload(old, ok, inst) ==
    IF ok THEN inst ELSE old

Idle(p) == pc[p] = "idle"

\* The task that issues the calls when the handlers run one after another.
Main == CHOOSE p \in Procs : \A q \in Procs : p <= q

\* Disk states the server may be started on.
InitDisks ==
    {{}, AllPaths}

\* Result<String, VarError> of std::env::var and Option<&str> of a header
\* value; strings are sequences of characters.
VarOk(v) == [ok |-> TRUE, v |-> v]
VarErr == [ok |-> FALSE, v |-> <<>>]
HeaderSome(v) == [some |-> TRUE, v |-> v]
HeaderNone == [some |-> FALSE, v |-> <<>>]

\* No request is being served.
NoRequest ==
    [authorization |-> HeaderNone, model |-> "", messages |-> 0,
     temperature |-> [k |-> "none", v |-> 0]]

\* No transformer is being constructed or run.
TfIdle ==
    /\ store = {}
    /\ num_layers = 0
    /\ transformer = [state |-> "none", err |-> "none", absent |-> {}, zeros |-> {}]
    /\ fpc = "idle"
    /\ fi = 0
    /\ nchunks = 0
    /\ hidden = "fin"
    /\ ferr = [kind |-> "none", stage |-> "", layer |-> -1]
    /\ seen = <<>>

\* No configuration is being read.
CfgIdle ==
    /\ manifest_hyper = <<>>
    /\ config_json = <<>>
    /\ model_config = <<>>

\* No streaming request is using an inference instance.
StrIdle ==
    /\ stream_sender = 0
    /\ rpc = <<>>
    /\ cloned = <<>>
    /\ rchan = <<>>

\* Nothing outside the manager, the infer call and the HTTP layer is running.
ExtIdle == TfIdle /\ CfgIdle /\ StrIdle

\* No HTTP request is in the server; the App is the one main.rs builds.
HttpIdle ==
    /\ wrapped = FALSE
    /\ handler = "chat_completion"
    /\ api_key_env = VarErr
    /\ http_req = NoRequest
    /\ hpc = "idle"
    /\ auth_seen = VarErr
    /\ response = 0
    /\ err = "none"
    /\ crashed = FALSE
    /\ invoked = FALSE
    /\ lookedUp = FALSE

\* No infer call is running.
InferIdle ==
    /\ impl = "none"
    /\ params = <<>>
    /\ ipc = "off"
    /\ sender = FALSE
    /\ tokenized = 0
    /\ forwards = 0
    /\ logitsSeq = <<>>
    /\ samples = 0
    /\ generated = 0
    /\ sendAttempts = 0
    /\ chan = <<>>
    /\ chanClosed = FALSE
    /\ output = <<>>
    /\ returned = 0
    /\ result = "none"

\* State after ModelManager::new() on disk d.
ManagerInit(d) ==
    /\ disk = d
    /\ diskOps = 0
    /\ model_status = ManagerNewStatus(d)
    /\ slot = [id \in ModelIds |-> 0]
    /\ locks = [l \in Locks |-> FreeLock]
    /\ nextInst = 1
    /\ pc = [p \in Procs |-> "idle"]
    /\ arg = [p \in Procs |-> ""]
    /\ held = [p \in Procs |-> 0]
    /\ downloaded = {}

Init ==
    /\ tokenizerEntry \in {"tokenizer.json", "tokenizer.model"}
    /\ hyperInManifest \in BOOLEAN
    /\ \E d \in InitDisks : ManagerInit(d)
    /\ InferIdle
    /\ HttpIdle
    /\ ExtIdle

Return(p) ==
    /\ pc' = [pc EXCEPT ![p] = "idle"]
    /\ arg' = [arg EXCEPT ![p] = ""]

\* ---- download_model
\* line 169: self.model_status.write().await
DownloadModelCall(p, id) ==
    /\ Idle(p)
    /\ pc' = [pc EXCEPT ![p] = "dl_status"]
    /\ arg' = [arg EXCEPT ![p] = id]
    /\ locks' = [locks EXCEPT !["model_status"] = AcquireLock(@, p, "write")]
    /\ UNCHANGED <<disk, tokenizerEntry, hyperInManifest, diskOps, model_status,
                   slot, nextInst, held, downloaded>>
    /\ UNCHANGED <<inferVars, httpVars, extVars>>

\* What download_model does once it holds the status map: "UnknownModel" (line
\* 193), "UnsupportedModel" (line 189) or "construct" (lines 172-188).
DownloadBranch(st, id) ==
    IF id \notin DOMAIN st THEN "UnknownModel"
    ELSE IF id \notin ModelIds THEN "UnsupportedModel"
    ELSE "construct"

\* lines 170, 189, 193: the id is rejected, the status guard is dropped
DownloadModelReject(p) ==
    /\ pc[p] = "dl_status"
    /\ Holds(locks["model_status"], p, "write")
    /\ DownloadBranch(model_status, arg[p]) # "construct"
    /\ locks' = [locks EXCEPT !["model_status"] = ReleaseLock(@, p)]
    /\ Return(p)
    /\ UNCHANGED <<disk, tokenizerEntry, hyperInManifest, diskOps, model_status,
                   slot, nextInst, held, downloaded>>
    /\ UNCHANGED <<inferVars, httpVars, extVars>>

\* lines 170-173 / 181: the slot's write lock is requested under the status lock
DownloadModelMatch(p) ==
    /\ pc[p] = "dl_status"
    /\ Holds(locks["model_status"], p, "write")
    /\ DownloadBranch(model_status, arg[p]) = "construct"
    /\ locks' = [locks EXCEPT ![SlotLock(arg[p])] = AcquireLock(@, p, "write")]
    /\ pc' = [pc EXCEPT ![p] = "dl_model"]
    /\ UNCHANGED <<disk, tokenizerEntry, hyperInManifest, diskOps, model_status,
                   slot, nextInst, arg, held, downloaded>>
    /\ UNCHANGED <<inferVars, httpVars, extVars>>

\* The run of the model constructor inside download_model of task p: k hub
\* fetches succeed, parseOk tells whether the weights load.
Construction(p, k, parseOk) ==
    ModelNew(arg[p], disk, tokenizerEntry, hyperInManifest, k, parseOk)

\* A download that writes the flags of every entry of the map.
StatusMapAfterDownloadAll(st, id, ok) ==
    [i \in DOMAIN st |-> StatusAfterDownload(st[i], ok)]

\* lines 170-188: status.get_mut(model_id) is the one entry
\* download_model writes
StatusMapAfterDownload(st, id, ok) ==
    [st EXCEPT ![id] = StatusAfterDownload(@, ok)]

\* Both guards are dropped when download_model returns (slot guard first).
DownloadRelease(p) ==
    [locks EXCEPT ![SlotLock(arg[p])] = ReleaseLock(@, p),
                  !["model_status"] = ReleaseLock(@, p)]

\* lines 174-178 / 182-187, 191: the constructor returned Ok: the instance is
\* stored in the slot and both flags are set.
DownloadModelStore(p) ==
    /\ pc[p] = "dl_model"
    /\ Holds(locks[SlotLock(arg[p])], p, "write")
    /\ nextInst <= MaxInst
    /\ \E k \in 0..MaxFetches(disk, arg[p], tokenizerEntry) :
         LET r == Construction(p, k, TRUE)
         IN  /\ r.ok
             /\ disk' = r.disk
             /\ slot' = [slot EXCEPT ![arg[p]] = SlotAfterDownload(@, r.ok, nextInst)]
             /\ model_status' = StatusMapAfterDownload(model_status, arg[p], r.ok)
    /\ nextInst' = nextInst + 1
    /\ downloaded' = downloaded \cup {arg[p]}
    /\ locks' = DownloadRelease(p)
    /\ Return(p)
    /\ UNCHANGED <<tokenizerEntry, hyperInManifest, diskOps, held>>
    /\ UNCHANGED <<inferVars, httpVars, extVars>>

\* lines 174-176 / 183-185: the constructor returned Err, which `?` maps to
\* InitializationFailed and returns.
DownloadModelFail(p) ==
    /\ pc[p] = "dl_model"
    /\ Holds(locks[SlotLock(arg[p])], p, "write")
    /\ \E k \in 0..MaxFetches(disk, arg[p], tokenizerEntry), parseOk \in BOOLEAN :
         LET r == Construction(p, k, parseOk)
         IN  /\ ~r.ok
             /\ disk' = r.disk
             /\ slot' = [slot EXCEPT ![arg[p]] = SlotAfterDownload(@, r.ok, nextInst)]
             /\ model_status' = StatusMapAfterDownload(model_status, arg[p], r.ok)
    /\ pc' = [pc EXCEPT ![p] = "dl_err"]
    /\ UNCHANGED <<tokenizerEntry, hyperInManifest, diskOps, locks, nextInst, arg,
                   held, downloaded>>
    /\ UNCHANGED <<inferVars, httpVars, extVars>>

\* the error return of download_model: both guards are dropped
DownloadModelReturnErr(p) ==
    /\ pc[p] = "dl_err"
    /\ locks' = DownloadRelease(p)
    /\ Return(p)
    /\ UNCHANGED <<disk, tokenizerEntry, hyperInManifest, diskOps, model_status,
                   slot, nextInst, held, downloaded>>
    /\ UNCHANGED <<inferVars, httpVars, extVars>>

\* ---- get_model_status
\* line 224: self.model_status.read().await
GetModelStatusCall(p, id) ==
    /\ Idle(p)
    /\ pc' = [pc EXCEPT ![p] = "gs_read"]
    /\ arg' = [arg EXCEPT ![p] = id]
    /\ locks' = [locks EXCEPT !["model_status"] = AcquireLock(@, p, "read")]
    /\ UNCHANGED <<disk, tokenizerEntry, hyperInManifest, diskOps, model_status,
                   slot, nextInst, held, downloaded>>
    /\ UNCHANGED <<inferVars, httpVars, extVars>>

\* status.get(model_id).cloned(): the Option<ModelStatus> returned
StatusGet(st, id) ==
    IF id \in DOMAIN st
    THEN [some |-> TRUE, is_cached |-> st[id].is_cached,
          is_enabled |-> st[id].is_enabled]
    ELSE [some |-> FALSE, is_cached |-> FALSE, is_enabled |-> FALSE]

\* line 225: returns StatusGet(model_status, arg[p])
GetModelStatusRead(p) ==
    /\ pc[p] = "gs_read"
    /\ Holds(locks["model_status"], p, "read")
    /\ locks' = [locks EXCEPT !["model_status"] = ReleaseLock(@, p)]
    /\ Return(p)
    /\ UNCHANGED <<disk, tokenizerEntry, hyperInManifest, diskOps, model_status,
                   slot, nextInst, held, downloaded>>
    /\ UNCHANGED <<inferVars, httpVars, extVars>>

\* ---- is_model_available
\* line 199
IsModelAvailableCall(p, id) ==
    /\ Idle(p)
    /\ pc' = [pc EXCEPT ![p] = "ia_read"]
    /\ arg' = [arg EXCEPT ![p] = id]
    /\ locks' = [locks EXCEPT !["model_status"] = AcquireLock(@, p, "read")]
    /\ UNCHANGED <<disk, tokenizerEntry, hyperInManifest, diskOps, model_status,
                   slot, nextInst, held, downloaded>>
    /\ UNCHANGED <<inferVars, httpVars, extVars>>

\* line 200: map(|s| s.is_cached && s.is_enabled).unwrap_or(false)
IsAvailable(st, id) ==
    IF id \in DOMAIN st THEN st[id].is_cached /\ st[id].is_enabled ELSE FALSE

\* line 200: returns IsAvailable(model_status, arg[p])
IsModelAvailableRead(p) ==
    /\ pc[p] = "ia_read"
    /\ Holds(locks["model_status"], p, "read")
    /\ locks' = [locks EXCEPT !["model_status"] = ReleaseLock(@, p)]
    /\ Return(p)
    /\ UNCHANGED <<disk, tokenizerEntry, hyperInManifest, diskOps, model_status,
                   slot, nextInst, held, downloaded>>
    /\ UNCHANGED <<inferVars, httpVars, extVars>>

\* ---- get_all_model_status
\* line 254 -> line 91: refresh_status_from_disk takes the write lock
GetAllModelStatusCall(p) ==
    /\ Idle(p)
    /\ pc' = [pc EXCEPT ![p] = "ga_refresh"]
    /\ locks' = [locks EXCEPT !["model_status"] = AcquireLock(@, p, "write")]
    /\ UNCHANGED <<disk, tokenizerEntry, hyperInManifest, diskOps, model_status,
                   slot, nextInst, arg, held, downloaded>>
    /\ UNCHANGED <<inferVars, httpVars, extVars>>

\* lines 93-141, then line 255: the write guard is dropped, the read lock requested
GetAllModelStatusRefresh(p) ==
    /\ pc[p] = "ga_refresh"
    /\ Holds(locks["model_status"], p, "write")
    /\ model_status' = refresh_status_from_disk(model_status, disk)
    /\ locks' = [locks EXCEPT !["model_status"] =
                    AcquireLock(ReleaseLock(@, p), p, "read")]
    /\ pc' = [pc EXCEPT ![p] = "ga_read"]
    /\ UNCHANGED <<disk, tokenizerEntry, hyperInManifest, diskOps,
                   slot, nextInst, arg, held, downloaded>>
    /\ UNCHANGED <<inferVars, httpVars, extVars>>

\* line 256: returns a copy of model_status
GetAllModelStatusRead(p) ==
    /\ pc[p] = "ga_read"
    /\ Holds(locks["model_status"], p, "read")
    /\ locks' = [locks EXCEPT !["model_status"] = ReleaseLock(@, p)]
    /\ Return(p)
    /\ UNCHANGED <<disk, tokenizerEntry, hyperInManifest, diskOps, model_status,
                   slot, nextInst, held, downloaded>>
    /\ UNCHANGED <<inferVars, httpVars, extVars>>

\* ---- get_yi_coder / get_deepseek_coder
\* A get that also takes the status map's read lock.
GetLocksWithStatus(id) == {SlotLock(id), "model_status"}

\* The locks a get for id requests before it can return.
GetLocks(id) == {SlotLock(id)}

\* lines 234 / 244
GetCoderCall(p, id) ==
    /\ Idle(p)
    /\ pc' = [pc EXCEPT ![p] = "get_read"]
    /\ arg' = [arg EXCEPT ![p] = id]
    /\ locks' = [l \in Locks |->
                    IF l \in GetLocks(id) THEN AcquireLock(locks[l], p, "read")
                    ELSE locks[l]]
    /\ UNCHANGED <<disk, tokenizerEntry, hyperInManifest, diskOps, model_status,
                   slot, nextInst, held, downloaded>>
    /\ UNCHANGED <<inferVars, httpVars, extVars>>

\* model.clone(): the Option returned, 0 = None, n = a handle on instance n
GetCoderResult(s, id) == s[id]

\* lines 235 / 245: returns GetCoderResult(slot, arg[p])
GetCoderRead(p) ==
    /\ pc[p] = "get_read"
    /\ \A l \in GetLocks(arg[p]) : Holds(locks[l], p, "read")
    /\ locks' = [l \in Locks |->
                    IF l \in GetLocks(arg[p]) THEN ReleaseLock(locks[l], p)
                    ELSE locks[l]]
    /\ Return(p)
    /\ UNCHANGED <<disk, tokenizerEntry, hyperInManifest, diskOps, model_status,
                   slot, nextInst, held, downloaded>>
    /\ UNCHANGED <<inferVars, httpVars, extVars>>

\* ---- ChatCompletionService::complete
\* The model a chat completion runs on is built for the request.
\* "yi-coder": YiCoder::new() (loader, then the transformer from the weights);
\* "deepseek-coder": get_model_config, then DeepSeekCoder::new on an empty store.
CompleteModelNew(model, d, tok, hyper, k, buildOk) ==
    IF model = "yi-coder"
    THEN YiCoderModelNew(d, tok, hyper, k, buildOk)
    ELSE [ok |-> buildOk /\ GetModelConfigOk(d, model, tok, hyper),
          disk |-> d,
          fetched |-> <<>>]

\* The instances complete() holds after construction: the one it built.
CompleteHeld(ok, inst) == IF ok THEN inst ELSE 0

\* lines 55-83 / 87-89: the model is constructed
CompleteConstruct(p, model) ==
    /\ Idle(p)
    /\ model \in ModelIds
    /\ \E k \in 0..MaxFetches(disk, model, tokenizerEntry), buildOk \in BOOLEAN :
         LET r == CompleteModelNew(model, disk, tokenizerEntry,
                                   hyperInManifest, k, buildOk)
         IN  /\ r.ok => nextInst <= MaxInst
             /\ disk' = r.disk
             /\ nextInst' = IF r.ok THEN nextInst + 1 ELSE nextInst
             /\ held' = [held EXCEPT ![p] = CompleteHeld(r.ok, nextInst)]
             /\ pc' = [pc EXCEPT ![p] = IF r.ok THEN "chat_infer" ELSE "idle"]
             /\ arg' = [arg EXCEPT ![p] = IF r.ok THEN model ELSE ""]
    /\ UNCHANGED <<tokenizerEntry, hyperInManifest, diskOps, model_status, slot,
                   locks, downloaded>>
    /\ UNCHANGED <<inferVars, httpVars, extVars>>

\* lines 93-96: any other model name is answered InvalidModel
CompleteInvalidModel(p, model) ==
    /\ Idle(p)
    /\ model \notin ModelIds
    /\ UNCHANGED <<mgrVars, httpVars, extVars>>
    /\ UNCHANGED <<inferVars, httpVars, extVars>>

\* lines 85 / 91, 104: model.infer(messages, params), then the model is dropped
CompleteInfer(p) ==
    /\ pc[p] = "chat_infer"
    /\ held' = [held EXCEPT ![p] = 0]
    /\ Return(p)
    /\ UNCHANGED <<disk, tokenizerEntry, hyperInManifest, diskOps, model_status,
                   slot, locks, nextInst, downloaded>>
    /\ UNCHANGED <<inferVars, httpVars, extVars>>

\* ---- POST /download (controller): ModelLoader::new only, the manager is unused
ControllerDownload(p, id) ==
    /\ Idle(p)
    /\ \E k \in 0..Len(files_to_download(disk, id, tokenizerEntry)) :
         disk' = ModelLoaderNew(disk, id, tokenizerEntry, hyperInManifest, k).disk
    /\ UNCHANGED <<tokenizerEntry, hyperInManifest, diskOps, model_status, slot,
                   locks, nextInst, pc, arg, held, downloaded>>
    /\ UNCHANGED <<inferVars, httpVars, extVars>>

\* ---- the environment: files appear in and disappear from the cache directory
\* The files the environment touches: of each model one weight file the
\* constructor reads, one file only the status probe looks at, and the
\* config.json that get_model_config may open.
EnvPaths ==
    {<<"yi-coder", "model.safetensors">>, <<"yi-coder", "tokenizer.json">>,
     <<"yi-coder", "config.json">>,
     <<"deepseek-coder", "model-00001-of-000004.safetensors">>,
     <<"deepseek-coder", "model-00002-of-000004.safetensors">>}

CreateFile(f) ==
    /\ diskOps < MaxDiskOps
    /\ f \notin disk
    /\ disk' = disk \cup {f}
    /\ diskOps' = diskOps + 1
    /\ UNCHANGED <<tokenizerEntry, hyperInManifest, model_status, slot, locks,
                   nextInst, pc, arg, held, downloaded>>
    /\ UNCHANGED <<inferVars, httpVars, extVars>>

DeleteFile(f) ==
    /\ diskOps < MaxDiskOps
    /\ f \in disk
    /\ disk' = disk \ {f}
    /\ diskOps' = diskOps + 1
    /\ UNCHANGED <<tokenizerEntry, hyperInManifest, model_status, slot, locks,
                   nextInst, pc, arg, held, downloaded>>
    /\ UNCHANGED <<inferVars, httpVars, extVars>>

\* The handlers of the manager, run by task p.
ManagerStep(p) ==
    \/ \E id \in RequestIds : DownloadModelCall(p, id)
    \/ DownloadModelReject(p)
    \/ DownloadModelMatch(p)
    \/ DownloadModelStore(p)
    \/ DownloadModelFail(p)
    \/ DownloadModelReturnErr(p)
    \/ \E id \in RequestIds : GetModelStatusCall(p, id)
    \/ GetModelStatusRead(p)
    \/ \E id \in RequestIds : IsModelAvailableCall(p, id)
    \/ IsModelAvailableRead(p)
    \/ GetAllModelStatusCall(p)
    \/ GetAllModelStatusRefresh(p)
    \/ GetAllModelStatusRead(p)
    \/ \E id \in ModelIds : GetCoderCall(p, id)
    \/ GetCoderRead(p)

\* The server's requests served one after another while the cache directory
\* changes underneath.
Next ==
    \/ ManagerStep(Main)
    \/ \E model \in RequestIds : CompleteConstruct(Main, model)
    \/ \E model \in RequestIds : CompleteInvalidModel(Main, model)
    \/ CompleteInfer(Main)
    \/ \E id \in RequestIds : ControllerDownload(Main, id)
    \/ \E f \in EnvPaths : CreateFile(f)
    \/ \E f \in EnvPaths : DeleteFile(f)

Spec == Init /\ [][Next]_vars

\* Cache directories a server may be started on: any part of the Yi-Coder
\* files left by earlier runs, next to none, the first or all of the
\* DeepSeek-Coder files.
LoadDisks ==
    {yi \cup ds :
        yi \in SUBSET {<<"yi-coder", f>> : f \in yi_coder_files},
        ds \in {{}, {<<"deepseek-coder", "model-00001-of-000004.safetensors">>},
                {<<"deepseek-coder", f>> : f \in deepseek_coder_files}}}

InitLoad ==
    /\ tokenizerEntry \in {"tokenizer.json", "tokenizer.model"}
    /\ hyperInManifest \in BOOLEAN
    /\ \E d \in LoadDisks : ManagerInit(d)
    /\ InferIdle
    /\ HttpIdle
    /\ ExtIdle

\* The operations that fetch model files, called one after another.
NextLoad ==
    \/ \E id \in RequestIds : DownloadModelCall(Main, id)
    \/ DownloadModelReject(Main)
    \/ DownloadModelMatch(Main)
    \/ DownloadModelStore(Main)
    \/ DownloadModelFail(Main)
    \/ DownloadModelReturnErr(Main)
    \/ \E id \in RequestIds : ControllerDownload(Main, id)

SpecLoad == InitLoad /\ [][NextLoad]_vars

\* Concurrent tasks calling the manager on a warm cache.
InitConc ==
    /\ tokenizerEntry = "tokenizer.json"
    /\ hyperInManifest = TRUE
    /\ ManagerInit(AllPaths)
    /\ InferIdle
    /\ HttpIdle
    /\ ExtIdle

NextConc == \E p \in Procs : ManagerStep(p)

SpecConc == InitConc /\ [][NextConc]_vars

\* Every task is polled by the runtime whenever it can take a step: a task that
\* holds what it waited for, or whose construction has finished, goes on.
SpecConcFair ==
    InitConc /\ [][NextConc]_vars /\ \A p \in Procs : WF_vars(ManagerStep(p))

\* ================================================================== infer
\* ------------------------------------------------------------------ bounds
MaxTokens == 2
ChanCap == 1

\* ---- f32 values in units of 1/10000, with NaN and the infinities
Fin(v) == [k |-> "fin", v |-> v]
NaN == [k |-> "nan", v |-> 0]
PosInf == [k |-> "inf", v |-> 1]
NoneF == [k |-> "none", v |-> 0]

\* a <= b on f32: false when either side is NaN
FLe(a, b) ==
    IF a.k = "nan" \/ b.k = "nan" THEN FALSE
    ELSE IF a.k = "inf" THEN a.v < 0 \/ (b.k = "inf" /\ b.v > 0)
    ELSE IF b.k = "inf" THEN b.v > 0
    ELSE a.v <= b.v

\* a > b on f32: false when either side is NaN
FGt(a, b) ==
    IF a.k = "nan" \/ b.k = "nan" THEN FALSE ELSE ~FLe(a, b)

\* Option<usize> / Option<bool>
SomeV(v) == [k |-> "some", v |-> v]
NoneV == [k |-> "none", v |-> 0]

\* Option::unwrap_or
UnwrapOr(o, d) == IF o.k = "none" THEN d ELSE o

Temperatures ==
    {NoneF, Fin(-10000), Fin(0), Fin(1), Fin(7000), Fin(20000), Fin(30000), NaN, PosInf}

TopPs == {NoneF, Fin(0), Fin(9000), Fin(10000), Fin(15000)}

Counts == {NoneV, SomeV(0), SomeV(1)}

TokenLimits == {NoneV} \cup {SomeV(v) : v \in 0..MaxTokens}

Streams == {NoneV, SomeV(FALSE), SomeV(TRUE)}

Vocab == {"a", "b"}

\* The implementations of infer: the two of Yi-Coder in infer.rs and
\* yi_coder.rs, the one of yi_coder/mod.rs that runs YiCoderTransformer::process,
\* and the two of DeepSeek-Coder in deepseek_coder.rs and deepseek_coder/infer.rs.
Impls ==
    {"YiCoderInference", "YiCoder", "YiCoderProcess", "DeepseekCoder",
     "DeepSeekCoderInference"}

\* ---- YiCoderInference::infer (infer.rs; inference.rs is the same code)
DefaultTemperature == 7000
DefaultTopP == 9000
DefaultN == 1
DefaultMaxTokens == 100

\* infer.rs line 45
temperature_out_of_range(t) == FLe(t, Fin(0)) \/ FGt(t, Fin(20000))

\* infer.rs line 53
top_p_out_of_range(t) == FLe(t, Fin(0)) \/ FGt(t, Fin(10000))

\* infer.rs lines 43-71: the checks in the order the code makes them
ValidateParams(ps) ==
    IF temperature_out_of_range(UnwrapOr(ps.temperature, Fin(DefaultTemperature)))
    THEN "InvalidParameter"
    ELSE IF top_p_out_of_range(UnwrapOr(ps.top_p, Fin(DefaultTopP)))
    THEN "InvalidParameter"
    ELSE IF UnwrapOr(ps.n, SomeV(DefaultN)).v = 0
    THEN "InvalidParameter"
    ELSE IF UnwrapOr(ps.max_tokens, SomeV(DefaultMaxTokens)).v = 0
    THEN "InvalidParameter"
    ELSE "ok"

InferFinish(res, n) ==
    /\ ipc' = "done"
    /\ result' = res
    /\ returned' = n

\* set_stream_sender (infer.rs lines 18-26)
SetStreamSender ==
    /\ impl = "YiCoderInference"
    /\ ipc = "start"
    /\ ~sender
    /\ sender' = TRUE
    /\ UNCHANGED <<impl, params, ipc, tokenized, forwards, logitsSeq, samples,
                   generated, sendAttempts, chan, chanClosed, output, returned, result>>
    /\ UNCHANGED <<mgrVars, httpVars, extVars>>

\* infer.rs lines 28-92 and 116-128: validation, then the single response or
\* the stream message
InferenceInfer ==
    /\ impl = "YiCoderInference"
    /\ ipc = "start"
    /\ IF ValidateParams(params) # "ok"
       THEN /\ InferFinish(ValidateParams(params), 0)
            /\ output' = output
       ELSE IF params.stream = SomeV(TRUE)
       THEN IF ~sender
            THEN /\ InferFinish("Generic", 0)
                 /\ output' = output
            ELSE /\ ipc' = "inference_send"
                 /\ output' = <<"Streaming response">>
                 /\ UNCHANGED <<result, returned>>
       ELSE /\ InferFinish("Ok", 1)
            /\ output' = <<"Processed prompt">>
    /\ UNCHANGED <<impl, params, sender, tokenized, forwards, logitsSeq, samples,
                   generated, sendAttempts, chan, chanClosed>>
    /\ UNCHANGED <<mgrVars, httpVars, extVars>>

\* infer.rs lines 105-115: sender.send(message).await waits for a free slot
InferenceSend ==
    /\ ipc = "inference_send"
    /\ chanClosed \/ Len(chan) < ChanCap
    /\ sendAttempts' = sendAttempts + 1
    /\ IF chanClosed
       THEN /\ InferFinish("Generic", 0)
            /\ chan' = chan
       ELSE /\ InferFinish("Ok", 1)
            /\ chan' = Append(chan, output[1])
    /\ UNCHANGED <<impl, params, sender, tokenized, forwards, logitsSeq, samples,
                   generated, chanClosed, output>>
    /\ UNCHANGED <<mgrVars, httpVars, extVars>>

\* ---- YiCoder::infer (yi_coder.rs)
\* line 169 / 333: params.max_tokens.unwrap_or(self.generation_config.max_tokens)
YiMaxTokens(ps) == UnwrapOr(ps.max_tokens, SomeV(ps.config_max_tokens)).v

\* line 264: temp.is_nan() || temp.is_infinite() || temp <= 0.0
invalid_temperature_value(t) == t.k = "nan" \/ t.k = "inf" \/ FLe(t, Fin(0))

\* logits.argmax(1): the forward pass is a fixed function of its input sequence
ArgMax(seq) == IF Len(seq) % 2 = 0 THEN "a" ELSE "b"

\* The tokens the sampler can return from logits computed over seq.
NextTokens(ps, seq) ==
    IF ps.temperature.k # "none" THEN Vocab ELSE {ArgMax(seq)}

\* lines 179-191: the tokenizer is loaded and every message encoded
YiTokenize ==
    /\ impl = "YiCoder"
    /\ ipc = "start"
    /\ \E e \in {"ok", "no_tokenizer", "encode_failed"} :
         /\ tokenized' = IF e = "no_tokenizer" THEN tokenized ELSE tokenized + 1
         /\ IF e = "ok"
            THEN /\ ipc' = "yi_forward"
                 /\ UNCHANGED <<result, returned>>
            ELSE InferFinish(IF e = "no_tokenizer" THEN "Anyhow" ELSE "Generic", 0)
    /\ UNCHANGED <<impl, params, sender, forwards, logitsSeq, samples, generated,
                   sendAttempts, chan, chanClosed, output>>
    /\ UNCHANGED <<mgrVars, httpVars, extVars>>

\* lines 196-213: the forward pass over the prompt
YiForward ==
    /\ ipc = "yi_forward"
    /\ forwards' = forwards + 1
    /\ logitsSeq' = <<>>
    /\ \E ok \in BOOLEAN :
         IF ok
         THEN /\ ipc' = "yi_sample"
              /\ UNCHANGED <<result, returned>>
         ELSE InferFinish("Candle", 0)
    /\ UNCHANGED <<impl, params, sender, tokenized, samples, generated,
                   sendAttempts, chan, chanClosed, output>>
    /\ UNCHANGED <<mgrVars, httpVars, extVars>>

\* lines 216-326: the first token; with a temperature the value is checked at
\* line 264, after the logits were indexed and converted
YiFirstSample ==
    /\ ipc = "yi_sample"
    /\ \E ok \in BOOLEAN, tok \in NextTokens(params, logitsSeq) :
         IF ~ok
         THEN /\ InferFinish("Candle", 0)
              /\ UNCHANGED <<samples, output, generated>>
         ELSE IF params.temperature.k # "none"
                 /\ invalid_temperature_value(params.temperature)
         THEN /\ InferFinish("Generic", 0)
              /\ UNCHANGED <<samples, output, generated>>
         ELSE /\ samples' = samples + 1
              /\ IF UnwrapOr(params.stream, SomeV(FALSE)).v
                 THEN /\ ipc' = "yi_stream_sample"
                      /\ output' = <<>>
                      /\ generated' = 0
                      /\ UNCHANGED <<result, returned>>
                 ELSE /\ InferFinish("Ok", 1)
                      /\ output' = <<tok>>
                      /\ generated' = generated
    /\ UNCHANGED <<impl, params, sender, tokenized, forwards, logitsSeq,
                   sendAttempts, chan, chanClosed>>
    /\ UNCHANGED <<mgrVars, httpVars, extVars>>

\* lines 337-365 and 388-394: the loop test, then the next token is sampled from
\* `logits`, decoded and pushed onto stream_output
YiStreamSample ==
    /\ ipc = "yi_stream_sample"
    /\ IF generated < YiMaxTokens(params)
       THEN \E ok \in BOOLEAN, tok \in NextTokens(params, logitsSeq) :
              IF ok
              THEN /\ samples' = samples + 1
                   /\ output' = Append(output, tok)
                   /\ generated' = generated + 1
                   /\ ipc' = "yi_stream_send"
                   /\ UNCHANGED <<result, returned>>
              ELSE /\ InferFinish("Candle", 0)
                   /\ UNCHANGED <<samples, output, generated>>
       ELSE /\ InferFinish("Ok", 1)
            /\ UNCHANGED <<samples, output, generated>>
    /\ UNCHANGED <<impl, params, sender, tokenized, forwards, logitsSeq,
                   sendAttempts, chan, chanClosed>>
    /\ UNCHANGED <<mgrVars, httpVars, extVars>>

\* send_stream_response (infer.rs lines 131-157): try_send on the stored sender
try_send(hasSender, closed, c) ==
    IF ~hasSender THEN "sender_not_initialized"
    ELSE IF closed THEN "channel_closed"
    ELSE IF Len(c) >= ChanCap THEN "buffer_full"
    ELSE "ok"

\* The logits the next iteration samples from: line 381 binds the new logits
\* to a `let` local to the loop body, the outer `logits` keeps its value.
LogitsAfterStreamForward(old, seq) == old

\* lines 367-385: the fragment is pushed, a failed push breaks out of the loop;
\* otherwise the token is appended and the forward pass run again.  The sender
\* of the YiCoderInference owned by YiCoder is never set (the field is private
\* and YiCoder::new stores a fresh YiCoderInference), so `sender` is FALSE here.
YiStreamSend ==
    /\ ipc = "yi_stream_send"
    /\ sendAttempts' = sendAttempts + 1
    /\ IF try_send(sender, chanClosed, chan) = "ok"
       THEN /\ chan' = Append(chan, output[Len(output)])
            /\ forwards' = forwards + 1
            /\ \E ok \in BOOLEAN :
                 IF ok
                 THEN /\ logitsSeq' = LogitsAfterStreamForward(logitsSeq, output)
                      /\ ipc' = "yi_stream_sample"
                      /\ UNCHANGED <<result, returned>>
                 ELSE /\ logitsSeq' = logitsSeq
                      /\ InferFinish("Candle", 0)
       ELSE /\ UNCHANGED <<chan, forwards, logitsSeq>>
            /\ InferFinish("Ok", 1)
    /\ UNCHANGED <<impl, params, sender, tokenized, samples, generated,
                   chanClosed, output>>
    /\ UNCHANGED <<mgrVars, httpVars, extVars>>

\* ---- YiCoder::infer of yi_coder/mod.rs and YiCoderTransformer::process
ProcessDefaultMaxTokens == 100

\* mod.rs line 41: params.max_tokens.unwrap_or(100)
ProcessMaxTokens(ps) == UnwrapOr(ps.max_tokens, SomeV(ProcessDefaultMaxTokens)).v

\* transformer_layer.rs lines 42-58: the device, the embedding of the input
\* bytes and the one forward pass through the layers
ProcessForward ==
    /\ impl = "YiCoderProcess"
    /\ ipc = "start"
    /\ \E e \in {"ok", "no_device", "forward_failed"} :
         /\ forwards' = IF e = "no_device" THEN forwards ELSE forwards + 1
         /\ IF e = "ok"
            THEN /\ ipc' = "process_loop"
                 /\ UNCHANGED <<result, returned>>
            ELSE InferFinish("Candle", 0)
    /\ generated' = 0
    /\ output' = <<>>
    /\ UNCHANGED <<impl, params, sender, tokenized, logitsSeq, samples,
                   sendAttempts, chan, chanClosed>>
    /\ UNCHANGED <<mgrVars, httpVars, extVars>>

\* transformer_layer.rs lines 59-74 and mod.rs lines 45-54: one turn of
\* `for _ in 0..max_tokens`, or the return of the single message
ProcessStep ==
    /\ ipc = "process_loop"
    /\ IF generated < ProcessMaxTokens(params)
       THEN \E ok \in BOOLEAN :
              IF ok
              THEN /\ samples' = samples + 1
                   /\ output' = Append(output, ArgMax(output))
                   /\ generated' = generated + 1
                   /\ UNCHANGED <<ipc, result, returned>>
              ELSE /\ InferFinish("Candle", 0)
                   /\ UNCHANGED <<samples, output, generated>>
       ELSE /\ InferFinish("Ok", 1)
            /\ UNCHANGED <<samples, output, generated>>
    /\ UNCHANGED <<impl, params, sender, tokenized, forwards, logitsSeq,
                   sendAttempts, chan, chanClosed>>
    /\ UNCHANGED <<mgrVars, httpVars, extVars>>

\* ---- sampling with a temperature in the DeepSeek-Coder code
\* softmax(logits / temp) holds NaN: temp is NaN, or 0 (the quotients are
\* infinite or NaN).
ProbsAreNaN(t) == t.k = "nan" \/ t = Fin(0)

\* The scan `cumulative += p; if cumulative >= random_val` finds an index:
\* it does whenever the probabilities are numbers (random_val < 1).
ScanReturns(t) == ~ProbsAreNaN(t)

\* ---- DeepseekCoder::infer (deepseek_coder.rs)
DeepseekDefaultMaxTokens == 2048

\* line 114: params.max_tokens.unwrap_or(2048)
DeepseekMaxTokens(ps) == UnwrapOr(ps.max_tokens, SomeV(DeepseekDefaultMaxTokens)).v

\* lines 57-64: the tokenizer is loaded and every message encoded
DsTokenize ==
    /\ impl = "DeepseekCoder"
    /\ ipc = "start"
    /\ \E e \in {"ok", "no_tokenizer", "encode_failed"} :
         /\ tokenized' = IF e = "no_tokenizer" THEN tokenized ELSE tokenized + 1
         /\ IF e = "ok"
            THEN /\ ipc' = "ds_forward"
                 /\ UNCHANGED <<result, returned>>
            ELSE InferFinish("TokenizerError", 0)
    /\ UNCHANGED <<impl, params, sender, forwards, logitsSeq, samples, generated,
                   sendAttempts, chan, chanClosed, output>>
    /\ UNCHANGED <<mgrVars, httpVars, extVars>>

\* lines 67-79: the forward pass over the prompt
DsForward ==
    /\ ipc = "ds_forward"
    /\ forwards' = forwards + 1
    /\ logitsSeq' = <<>>
    /\ \E ok \in BOOLEAN :
         IF ok
         THEN /\ ipc' = "ds_sample"
              /\ UNCHANGED <<result, returned>>
         ELSE InferFinish("Candle", 0)
    /\ UNCHANGED <<impl, params, sender, tokenized, samples, generated,
                   sendAttempts, chan, chanClosed, output>>
    /\ UNCHANGED <<mgrVars, httpVars, extVars>>

\* The number of messages DeepseekCoder::infer returns when its streaming
\* loop has run to the end (line 161).
DeepseekStreamReturn(out) == 0

\* lines 82-108, 111-115 and 165: the first token.  With a temperature the
\* scan returns the one-token message from inside the sampler (lines 95-98).
DsFirstSample ==
    /\ ipc = "ds_sample"
    /\ \E ok \in BOOLEAN, tok \in NextTokens(params, logitsSeq) :
         IF ~ok
         THEN /\ InferFinish("Candle", 0)
              /\ UNCHANGED <<samples, output, generated>>
         ELSE IF params.temperature.k # "none" /\ ScanReturns(params.temperature)
         THEN /\ samples' = samples + 1
              /\ output' = <<tok>>
              /\ generated' = generated
              /\ InferFinish("Ok", 1)
         ELSE /\ samples' = samples + 1
              /\ IF UnwrapOr(params.stream, SomeV(FALSE)).v
                 THEN /\ ipc' = "ds_stream"
                      /\ output' = <<>>
                      /\ generated' = 0
                      /\ UNCHANGED <<result, returned>>
                 ELSE /\ InferFinish("Ok", 1)
                      /\ output' = <<ArgMax(logitsSeq)>>
                      /\ generated' = generated
    /\ UNCHANGED <<impl, params, sender, tokenized, forwards, logitsSeq,
                   sendAttempts, chan, chanClosed>>
    /\ UNCHANGED <<mgrVars, httpVars, extVars>>

\* lines 155-158: the token is pushed onto input_ids and `logits` is assigned
\* the result of the forward pass over the longer sequence
DsLogitsAfterStreamForward(old, tok) == Append(old, tok)

\* lines 116-161: one turn of the streaming loop (the token is sampled and
\* decoded, nothing is sent, the forward pass is run again and assigned to
\* `logits`), or the return after the loop.  The loop is only reached when the
\* scan cannot return, so the token is the argmax.
DsStreamStep ==
    /\ ipc = "ds_stream"
    /\ IF generated < DeepseekMaxTokens(params)
       THEN \E ok \in BOOLEAN :
              IF ok
              THEN /\ samples' = samples + 1
                   /\ generated' = generated + 1
                   /\ forwards' = forwards + 1
                   /\ logitsSeq' = DsLogitsAfterStreamForward(logitsSeq, ArgMax(logitsSeq))
                   /\ UNCHANGED <<ipc, result, returned>>
              ELSE /\ InferFinish("Candle", 0)
                   /\ UNCHANGED <<samples, generated, forwards, logitsSeq>>
       ELSE /\ InferFinish("Ok", DeepseekStreamReturn(output))
            /\ UNCHANGED <<samples, generated, forwards, logitsSeq>>
    /\ UNCHANGED <<impl, params, sender, tokenized, output,
                   sendAttempts, chan, chanClosed>>
    /\ UNCHANGED <<mgrVars, httpVars, extVars>>

\* ---- DeepSeekCoderInference::infer (deepseek_coder/infer.rs)
\* lines 70 and 82-97: preprocess_messages
DsiPreprocess ==
    /\ impl = "DeepSeekCoderInference"
    /\ ipc = "start"
    /\ tokenized' = tokenized + 1
    /\ \E ok \in BOOLEAN :
         IF ok
         THEN /\ ipc' = "dsi_run"
              /\ UNCHANGED <<result, returned>>
         ELSE InferFinish("TokenizerError", 0)
    /\ UNCHANGED <<impl, params, sender, forwards, logitsSeq, samples, generated,
                   sendAttempts, chan, chanClosed, output>>
    /\ UNCHANGED <<mgrVars, httpVars, extVars>>

\* lines 99-112: run_model up to the call of sample_tokens
DsiRunModel ==
    /\ ipc = "dsi_run"
    /\ \E e \in {"ok", "no_transformer", "forward_failed"} :
         /\ forwards' = IF e = "no_transformer" THEN forwards ELSE forwards + 1
         /\ IF e = "ok"
            THEN /\ ipc' = "dsi_sample"
                 /\ UNCHANGED <<result, returned>>
            ELSE InferFinish("Transformer", 0)
    /\ logitsSeq' = <<>>
    /\ UNCHANGED <<impl, params, sender, tokenized, samples, generated,
                   sendAttempts, chan, chanClosed, output>>
    /\ UNCHANGED <<mgrVars, httpVars, extVars>>

\* sample_tokens (lines 139-160): what the call returns for a temperature when
\* the tensor operations succeed: "scan" (line 154) or "argmax" (line 159).
\* No branch looks at the value of the temperature.
sample_tokens(t) ==
    IF t.k # "none" /\ ScanReturns(t) THEN "scan" ELSE "argmax"

\* lines 114 and 139-160, then postprocess_output (lines 117-125)
DsiSampleTokens ==
    /\ ipc = "dsi_sample"
    /\ \E ok \in BOOLEAN, tok \in Vocab :
         IF ~ok
         THEN /\ InferFinish("Candle", 0)
              /\ UNCHANGED <<samples, output>>
         ELSE /\ samples' = samples + 1
              /\ output' = IF sample_tokens(params.temperature) = "scan"
                           THEN <<tok>> ELSE <<ArgMax(logitsSeq)>>
              /\ InferFinish("Ok", 1)
    /\ UNCHANGED <<impl, params, sender, tokenized, forwards, logitsSeq, generated,
                   sendAttempts, chan, chanClosed>>
    /\ UNCHANGED <<mgrVars, httpVars, extVars>>

\* ---- the next call of infer on the same object: the sender and the channel stay
InferAgain ==
    /\ ipc = "done"
    /\ ipc' = "start"
    /\ tokenized' = 0
    /\ forwards' = 0
    /\ logitsSeq' = <<>>
    /\ samples' = 0
    /\ generated' = 0
    /\ sendAttempts' = 0
    /\ output' = <<>>
    /\ returned' = 0
    /\ result' = "none"
    /\ UNCHANGED <<impl, params, sender, chan, chanClosed>>
    /\ UNCHANGED <<mgrVars, httpVars, extVars>>

\* ---- the consumer of the stream channel
Receive ==
    /\ sender
    /\ ~chanClosed
    /\ chan # <<>>
    /\ chan' = Tail(chan)
    /\ UNCHANGED <<impl, params, ipc, sender, tokenized, forwards, logitsSeq,
                   samples, generated, sendAttempts, chanClosed, output, returned,
                   result>>
    /\ UNCHANGED <<mgrVars, httpVars, extVars>>

CloseReceiver ==
    /\ sender
    /\ ~chanClosed
    /\ chanClosed' = TRUE
    /\ UNCHANGED <<impl, params, ipc, sender, tokenized, forwards, logitsSeq,
                   samples, generated, sendAttempts, chan, output, returned, result>>
    /\ UNCHANGED <<mgrVars, httpVars, extVars>>

\* One infer call with parameters ps on implementation i.
InferInit(i, ps) ==
    /\ impl = i
    /\ params = ps
    /\ ipc = "start"
    /\ sender = FALSE
    /\ tokenized = 0
    /\ forwards = 0
    /\ logitsSeq = <<>>
    /\ samples = 0
    /\ generated = 0
    /\ sendAttempts = 0
    /\ chan = <<>>
    /\ chanClosed = FALSE
    /\ output = <<>>
    /\ returned = 0
    /\ result = "none"

ParamSpace ==
    [temperature : Temperatures, top_p : TopPs, n : Counts,
     max_tokens : TokenLimits, stream : Streams, config_max_tokens : {0, MaxTokens}]

InitInfer ==
    /\ tokenizerEntry = "tokenizer.json"
    /\ hyperInManifest = TRUE
    /\ ManagerInit(AllPaths)
    /\ \E i \in Impls, ps \in ParamSpace : InferInit(i, ps)
    /\ HttpIdle
    /\ ExtIdle

NextInfer ==
    \/ SetStreamSender
    \/ InferenceInfer
    \/ InferenceSend
    \/ YiTokenize
    \/ YiForward
    \/ YiFirstSample
    \/ YiStreamSample
    \/ YiStreamSend
    \/ ProcessForward
    \/ ProcessStep
    \/ DsTokenize
    \/ DsForward
    \/ DsFirstSample
    \/ DsStreamStep
    \/ DsiPreprocess
    \/ DsiRunModel
    \/ DsiSampleTokens
    \/ InferAgain
    \/ Receive
    \/ CloseReceiver

SpecInfer == InitInfer /\ [][NextInfer]_vars

\* The steps of a running infer call.  The call is a future polled by the
\* runtime: it takes its next step whenever it is not waiting on the channel.
InferStep ==
    \/ InferenceInfer
    \/ InferenceSend
    \/ YiTokenize
    \/ YiForward
    \/ YiFirstSample
    \/ YiStreamSample
    \/ YiStreamSend
    \/ ProcessForward
    \/ ProcessStep
    \/ DsTokenize
    \/ DsForward
    \/ DsFirstSample
    \/ DsStreamStep
    \/ DsiPreprocess
    \/ DsiRunModel
    \/ DsiSampleTokens

\* The same calls under the scheduling the runtime guarantees; nothing makes
\* the consumer receive.
SpecInferFair == InitInfer /\ [][NextInfer]_vars /\ WF_vars(InferStep)

\* ================================================================ HTTP layer
\* ---- Authentication middleware
\* "Bearer " as the characters strip_prefix compares.
BearerPrefix == <<"B", "e", "a", "r", "e", "r", " ">>

\* The keys the tests use, abbreviated: "test-key" and "wrong-key".
TestKey == <<"t", "k">>
WrongKey == <<"w", "k">>

\* A key with a character outside visible ASCII.
NonAsciiKey == <<"e-acute">>

\* HeaderValue::to_str yields a &str only for visible ASCII bytes.
VisibleAscii(c) == c # "e-acute"

to_str(h) ==
    IF h.some /\ \A i \in 1..Len(h.v) : VisibleAscii(h.v[i]) THEN h ELSE HeaderNone

strip_prefix(o, pre) ==
    IF o.some /\ Len(o.v) >= Len(pre) /\ SubSeq(o.v, 1, Len(pre)) = pre
    THEN HeaderSome(SubSeq(o.v, Len(pre) + 1, Len(o.v)))
    ELSE HeaderNone

\* lines 73-77: the key taken from the Authorization header
ExtractApiKey(req) == strip_prefix(to_str(req.authorization), BearerPrefix)

\* A match whose first arm lacks the guard `if key == env_key`.
AuthVerdictAnyKey(api_key, env) ==
    IF api_key.some /\ env.ok THEN 0
    ELSE IF ~api_key.some THEN 401
    ELSE 500

\* lines 80-102: the arms of the match in the order they are tried; 0 stands
\* for calling the wrapped service, any other value is the status of the error.
AuthVerdict(api_key, env) ==
    IF api_key.some /\ env.ok /\ api_key.v = env.v THEN 0
    ELSE IF ~api_key.some THEN 401
    ELSE IF ~env.ok THEN 500
    ELSE 401

AuthHeaders ==
    {HeaderNone, HeaderSome(BearerPrefix \o TestKey), HeaderSome(BearerPrefix \o WrongKey),
     HeaderSome(TestKey), HeaderSome(BearerPrefix \o NonAsciiKey)}

ApiKeyEnvs == {VarErr, VarOk(TestKey), VarOk(NonAsciiKey)}

\* The controller functions written for POST /chat/completions.
Handlers == {"chat_completion", "chat_completions"}

RequestModels == {"", "yi-coder", "deepseek-coder", "invalid-model"}

\* Requests: the header, the model name, the number of messages and the
\* temperature field (absent, or 3.0).
RequestSpace ==
    [authorization : AuthHeaders, model : RequestModels, messages : 0..1,
     temperature : {NoneF, Fin(30000)}]

\* std::env::set_var("API_KEY", ..) / std::env::remove_var("API_KEY")
SetApiKey(v) ==
    /\ v # api_key_env
    /\ api_key_env' = v
    /\ UNCHANGED <<wrapped, handler, http_req, hpc, auth_seen, response, err,
                   crashed, invoked, lookedUp>>
    /\ UNCHANGED <<mgrVars, inferVars, extVars>>

\* A request arrives; the previous one has been answered.
HttpRequest(r) ==
    /\ hpc \in {"idle", "done"}
    /\ http_req' = r
    /\ hpc' = IF wrapped THEN "auth" ELSE "handler"
    /\ auth_seen' = VarErr
    /\ response' = 0
    /\ err' = "none"
    /\ crashed' = FALSE
    /\ invoked' = FALSE
    /\ lookedUp' = FALSE
    /\ UNCHANGED <<wrapped, handler, api_key_env>>
    /\ UNCHANGED <<mgrVars, inferVars, extVars>>

\* AuthenticationMiddleware::call
AuthenticationCall ==
    /\ hpc = "auth"
    /\ LET verdict == AuthVerdict(ExtractApiKey(http_req), api_key_env)
       IN  /\ auth_seen' = api_key_env
           /\ invoked' = (verdict = 0)
           /\ response' = verdict
           /\ hpc' = IF verdict = 0 THEN "handler" ELSE "done"
    /\ UNCHANGED <<wrapped, handler, api_key_env, http_req, err, crashed, lookedUp>>
    /\ UNCHANGED <<mgrVars, inferVars, extVars>>

\* ---- controller/chat/chat_completion.rs (the handler the routes register)
\* lines 67-73: absent fields are filled from the configured defaults
ControllerParams(req) ==
    [temperature |-> UnwrapOr(req.temperature, Fin(DefaultTemperature)),
     top_p |-> Fin(DefaultTopP), n |-> SomeV(DefaultN),
     max_tokens |-> SomeV(DefaultMaxTokens), stream |-> SomeV(FALSE),
     config_max_tokens |-> MaxTokens]

\* What model.infer can return to complete(): Ok, a tensor error, or
\* InvalidParameter from an infer that validates its parameters.
InferOutcomes(ps) ==
    {"Ok", "Candle"} \cup (IF ValidateParams(ps) = "ok" THEN {} ELSE {"InvalidParameter"})

\* AppError::status_code
status_code(e) ==
    IF e \in {"Model", "Chat", "InvalidModel", "ValidationError", "InvalidParameter"}
    THEN 400
    ELSE IF e = "NotFound" THEN 404
    ELSE IF e = "Unauthorized" THEN 401
    ELSE IF e = "Forbidden" THEN 403
    ELSE 500

\* lines 101-111: every Err of the service is answered InternalServerError
ControllerErrorStatus(e) == 500

\* lines 51-61: the required fields are checked
ChatCompletionValidate ==
    /\ hpc = "handler"
    /\ handler = "chat_completion"
    /\ IF http_req.model = "" \/ http_req.messages = 0
       THEN /\ response' = 400
            /\ hpc' = "done"
       ELSE /\ response' = response
            /\ hpc' = "complete"
    /\ UNCHANGED <<wrapped, handler, api_key_env, http_req, auth_seen, err, crashed,
                   invoked, lookedUp>>
    /\ UNCHANGED <<mgrVars, inferVars, extVars>>

\* lines 63-112: service.complete(model, messages, params) and the response
\* built from its result
ChatCompletionComplete ==
    /\ hpc = "complete"
    /\ lookedUp' = TRUE
    /\ hpc' = "done"
    /\ IF http_req.model \notin ModelIds
       THEN /\ err' = "InvalidModel"
            /\ response' = ControllerErrorStatus("InvalidModel")
            /\ disk' = disk
       ELSE \E k \in 0..MaxFetches(disk, http_req.model, tokenizerEntry),
               buildOk \in BOOLEAN,
               out \in InferOutcomes(ControllerParams(http_req)) :
                LET r == CompleteModelNew(http_req.model, disk, tokenizerEntry,
                                          hyperInManifest, k, buildOk)
                    e == IF ~r.ok THEN "Generic" ELSE IF out = "Ok" THEN "none" ELSE out
                IN  /\ disk' = r.disk
                    /\ err' = e
                    /\ response' = IF e = "none" THEN 200 ELSE ControllerErrorStatus(e)
    /\ UNCHANGED <<wrapped, handler, api_key_env, http_req, auth_seen, crashed, invoked>>
    /\ UNCHANGED <<tokenizerEntry, hyperInManifest, diskOps, model_status, slot,
                   locks, nextInst, pc, arg, held, downloaded>>
    /\ UNCHANGED <<inferVars, extVars>>

\* ---- controller/chat/chat.rs
\* ChatError::error_response
ChatErrorStatus(e) ==
    IF e = "ModelNotAvailable" THEN 400
    ELSE IF e = "ModelNotFound" THEN 404
    ELSE 500

\* lines 100-108: the status entry of the model is read
ChatCompletionsStatus ==
    /\ hpc = "handler"
    /\ handler = "chat_completions"
    /\ lookedUp' = TRUE
    /\ LET st == StatusGet(model_status, http_req.model)
           e == IF ~st.some THEN "ModelNotFound"
                ELSE IF ~st.is_cached \/ ~st.is_enabled THEN "ModelNotAvailable"
                ELSE "none"
       IN  /\ err' = e
           /\ response' = IF e = "none" THEN response ELSE ChatErrorStatus(e)
           /\ hpc' = IF e = "none" THEN "generate" ELSE "done"
    /\ UNCHANGED <<wrapped, handler, api_key_env, http_req, auth_seen, crashed, invoked>>
    /\ UNCHANGED <<mgrVars, inferVars, extVars>>

\* lines 111-132: the instance is taken from the manager and asked for a
\* response to `req.messages[0].content`; indexing an empty Vec panics.
ChatCompletionsGenerate ==
    /\ hpc = "generate"
    /\ hpc' = "done"
    /\ IF GetCoderResult(slot, http_req.model) = 0
       THEN /\ err' = "ModelNotAvailable"
            /\ response' = ChatErrorStatus("ModelNotAvailable")
            /\ crashed' = crashed
       ELSE IF http_req.messages = 0
       THEN /\ crashed' = TRUE
            /\ UNCHANGED <<err, response>>
       ELSE /\ response' = 200
            /\ UNCHANGED <<err, crashed>>
    /\ UNCHANGED <<wrapped, handler, api_key_env, http_req, auth_seen, invoked, lookedUp>>
    /\ UNCHANGED <<mgrVars, inferVars, extVars>>

\* The manager after download_model(id) has succeeded on a complete cache.
ManagerDownloaded(id) ==
    /\ disk = AllPaths
    /\ diskOps = 0
    /\ model_status = [ManagerNewStatus(AllPaths) EXCEPT ![id] = StatusAfterDownload(@, TRUE)]
    /\ slot = [i \in ModelIds |-> IF i = id THEN SlotAfterDownload(0, TRUE, 1) ELSE 0]
    /\ locks = [l \in Locks |-> FreeLock]
    /\ nextInst = 1 + 1
    /\ pc = [p \in Procs |-> "idle"]
    /\ arg = [p \in Procs |-> ""]
    /\ held = [p \in Procs |-> 0]
    /\ downloaded = {id}

\* A server that has just started, or in which one model has been downloaded,
\* built with or without the Authentication middleware around either handler.
InitHttp ==
    /\ tokenizerEntry = "tokenizer.json"
    /\ hyperInManifest = TRUE
    /\ \/ \E d \in InitDisks : ManagerInit(d)
       \/ \E id \in ModelIds : ManagerDownloaded(id)
    /\ InferIdle
    /\ ExtIdle
    /\ wrapped \in BOOLEAN
    /\ handler \in Handlers
    /\ api_key_env \in ApiKeyEnvs
    /\ http_req = NoRequest
    /\ hpc = "idle"
    /\ auth_seen = VarErr
    /\ response = 0
    /\ err = "none"
    /\ crashed = FALSE
    /\ invoked = FALSE
    /\ lookedUp = FALSE

NextHttp ==
    \/ \E v \in ApiKeyEnvs : SetApiKey(v)
    \/ \E r \in RequestSpace : HttpRequest(r)
    \/ AuthenticationCall
    \/ ChatCompletionValidate
    \/ ChatCompletionComplete
    \/ ChatCompletionsStatus
    \/ ChatCompletionsGenerate

SpecHttp == InitHttp /\ [][NextHttp]_vars

\* ================================================ service/models/yi_coder/transformer.rs
\* ---- bounds
MaxLayers == 1
MaxAbsent == 2
MaxChunks == 1

\* The parameters TransformerLayer::new asks the weight store for, in the order
\* of the calls: MultiHeadAttention::new (query, key, value, out),
\* PositionWiseFeedForward::new (fc1, fc2), each through candle_nn::linear
\* (weight, then bias), then the two layer norms.
LayerParams ==
    <<"attention.query.weight", "attention.query.bias",
      "attention.key.weight", "attention.key.bias",
      "attention.value.weight", "attention.value.bias",
      "attention.out.weight", "attention.out.bias",
      "ffn.fc1.weight", "ffn.fc1.bias", "ffn.fc2.weight", "ffn.fc2.bias",
      "input_layernorm.weight", "input_layernorm.bias",
      "post_attention_layernorm.weight", "post_attention_layernorm.bias">>

\* vb.pp(format!("layer_{}", i)): the name of a parameter of layer i.  The
\* parameters of the model itself carry the layer number -1.
LayerParam(i, n) == <<i, n>>
NormWeight == <<-1, "model.norm.weight">>
NormBias == <<-1, "model.norm.bias">>
WordEmbeddings == <<-1, "model.embeddings.word_embeddings">>

\* Every parameter name the construction of a stack of n layers looks up.
ExpectedParams(n) ==
    {LayerParam(i, LayerParams[k]) : i \in 0..(n - 1), k \in 1..Len(LayerParams)}
        \cup {NormWeight, NormBias, WordEmbeddings}

\* NaN / infinite / finite content of a tensor.
Conds == {"fin", "nan", "inf"}

\* validate_tensor: Ok exactly when no entry is NaN or infinite
validate_tensor_nan_only(c) == c # "nan"
validate_tensor(c) == c # "nan" /\ c # "inf"

\* Tensor::clamp: maximum(min) then minimum(max); an infinite entry becomes the
\* bound, a NaN stays.
Clamp(c) == IF c = "inf" THEN "fin" ELSE c

\* The first parameter of layer i that the store st lacks, 0 if none
\* (every lookup of TransformerLayer::new is followed by `?`).
RECURSIVE FirstAbsent(_, _, _)
FirstAbsent(i, k, st) ==
    IF k > Len(LayerParams) THEN 0
    ELSE IF LayerParam(i, LayerParams[k]) \notin st THEN k
    ELSE FirstAbsent(i, k + 1, st)

\* No transformer has been constructed.
Unbuilt == [state |-> "none", err |-> "none", absent |-> {}, zeros |-> {}]

TransformerFailed(e, names) ==
    [state |-> "failed", err |-> e, absent |-> names, zeros |-> {}]

\* TransformerLayer::new for the layers i..n-1, then the rest of
\* YiCoderTransformer::new: model.norm.weight is required, model.norm.bias and
\* the word embeddings are replaced by zero tensors when absent, and the norm
\* parameters (of content wc) are validated.
RECURSIVE YiCoderTransformerNew(_, _, _, _)
YiCoderTransformerNew(i, n, st, wc) ==
    IF i < n
    THEN LET k == FirstAbsent(i, 1, st)
         IN  IF k # 0
             THEN TransformerFailed("LayerError", {LayerParam(i, LayerParams[k])})
             ELSE YiCoderTransformerNew(i + 1, n, st, wc)
    ELSE IF NormWeight \notin st
    THEN TransformerFailed("CannotFindTensor", {NormWeight})
    ELSE IF ~validate_tensor(wc)
    THEN TransformerFailed("InvalidTensorValues", {})
    ELSE [state |-> "built", err |-> "none", absent |-> {},
          zeros |-> {NormBias, WordEmbeddings} \ st]

\* No forward pass is running.
NoStageError == [kind |-> "none", stage |-> "", layer |-> -1]

StageError(stage, layer) ==
    [kind |-> "InvalidTensorValues", stage |-> stage, layer |-> layer]

OtherError(msg) == [kind |-> "Other", stage |-> msg, layer |-> -1]

\* YiCoderTransformer::new(config, vb)
TransformerNew ==
    /\ transformer.state = "none"
    /\ \E wc \in Conds :
         transformer' = YiCoderTransformerNew(0, num_layers, store, wc)
    /\ UNCHANGED <<store, num_layers, fpc, fi, nchunks, hidden, ferr, seen>>
    /\ UNCHANGED <<mgrVars, inferVars, httpVars, cfgVars, strVars>>

\* forward, lines 229-256: the input is converted to I64 and must not hold a
\* negative value
ForwardCall ==
    /\ transformer.state = "built"
    /\ fpc = "idle"
    /\ seen' = <<>>
    /\ hidden' = "fin"
    /\ fi' = 0
    /\ \E n \in 1..MaxChunks, neg \in BOOLEAN :
         /\ nchunks' = n
         /\ IF neg
            THEN /\ fpc' = "done"
                 /\ ferr' = OtherError("negative values")
            ELSE /\ fpc' = "embed"
                 /\ ferr' = NoStageError
    /\ UNCHANGED <<store, num_layers, transformer>>
    /\ UNCHANGED <<mgrVars, inferVars, httpVars, cfgVars, strVars>>

\* validate_tensor(&t, context)?: the check is recorded; a tensor with a NaN
\* or infinite entry ends the call with the error of that context.
Validated(stage, layer, c) == Append(seen, [stage |-> stage, layer |-> layer, cond |-> c])

\* lines 258-325: the embedding, clamped to [-1e4, 1e4], is validated and its
\* dimensions are matched
ForwardEmbed ==
    /\ fpc = "embed"
    /\ \E ok \in BOOLEAN, dimsOk \in BOOLEAN,
          c \in (IF WordEmbeddings \in transformer.zeros THEN {"fin"} ELSE Conds) :
         IF ~ok
         THEN /\ fpc' = "done"
              /\ ferr' = OtherError("embedding")
              /\ UNCHANGED <<hidden, seen, fi>>
         ELSE /\ hidden' = Clamp(c)
              /\ seen' = Validated("Embeddings output", -1, Clamp(c))
              /\ fi' = 0
              /\ IF ~validate_tensor(Clamp(c))
                 THEN /\ fpc' = "done"
                      /\ ferr' = StageError("Embeddings output", -1)
                 ELSE IF ~dimsOk
                 THEN /\ fpc' = "done"
                      /\ ferr' = OtherError("Unexpected tensor shape")
                 ELSE /\ fpc' = IF num_layers > 0 THEN "layer" ELSE "pre_norm"
                      /\ ferr' = ferr
    /\ UNCHANGED <<store, num_layers, transformer, nchunks>>
    /\ UNCHANGED <<mgrVars, inferVars, httpVars, cfgVars, strVars>>

\* lines 326-340: layer fi is run (TransformerLayer::forward can fail inside,
\* e.g. on NaN attention scores) and its output validated
ForwardLayer ==
    /\ fpc = "layer"
    /\ \E ok \in BOOLEAN, c \in Conds :
         IF ~ok
         THEN /\ fpc' = "done"
              /\ ferr' = OtherError("layer forward")
              /\ UNCHANGED <<hidden, seen, fi>>
         ELSE /\ hidden' = c
              /\ seen' = Validated("Layer output", fi, c)
              /\ fi' = fi + 1
              /\ IF ~validate_tensor(c)
                 THEN /\ fpc' = "done"
                      /\ ferr' = StageError("Layer output", fi)
                 ELSE /\ fpc' = IF fi + 1 < num_layers THEN "layer" ELSE "pre_norm"
                      /\ ferr' = ferr
    /\ UNCHANGED <<store, num_layers, transformer, nchunks>>
    /\ UNCHANGED <<mgrVars, inferVars, httpVars, cfgVars, strVars>>

\* lines 341-395: the input of the final layer norm is validated, clamped to
\* [-1e3, 1e3], checked once more in line, and stabilised
ForwardPreNorm ==
    /\ fpc = "pre_norm"
    /\ seen' = Validated("Final layer norm input", -1, hidden)
    /\ hidden' = Clamp(hidden)
    /\ fi' = 0
    /\ \E ok \in BOOLEAN :
         IF ~validate_tensor(hidden)
         THEN /\ fpc' = "done"
              /\ ferr' = StageError("Final layer norm input", -1)
         ELSE IF Clamp(hidden) # "fin"
         THEN /\ fpc' = "done"
              /\ ferr' = OtherError("NaN/Inf values detected before final layer norm")
         ELSE IF ~ok
         THEN /\ fpc' = "done"
              /\ ferr' = OtherError("variance")
         ELSE /\ fpc' = "chunk"
              /\ ferr' = ferr
    /\ UNCHANGED <<store, num_layers, transformer, nchunks>>
    /\ UNCHANGED <<mgrVars, inferVars, httpVars, cfgVars, strVars>>

\* lines 407-421: chunk fi is clamped and validated, normalised, and the
\* result validated and clamped
ForwardChunk ==
    /\ fpc = "chunk"
    /\ \E ok \in BOOLEAN, c \in Conds :
         LET input == Clamp(hidden)
             first == Validated("Layer norm input chunk", fi, input)
         IN  IF ~validate_tensor(input)
             THEN /\ seen' = first
                  /\ fpc' = "done"
                  /\ ferr' = StageError("Layer norm input chunk", fi)
                  /\ UNCHANGED <<hidden, fi>>
             ELSE IF ~ok
             THEN /\ seen' = first
                  /\ fpc' = "done"
                  /\ ferr' = OtherError("layer norm")
                  /\ UNCHANGED <<hidden, fi>>
             ELSE /\ seen' = Append(first, [stage |-> "Layer norm chunk output",
                                            layer |-> fi, cond |-> c])
                  /\ IF ~validate_tensor(c)
                     THEN /\ fpc' = "done"
                          /\ ferr' = StageError("Layer norm chunk output", fi)
                          /\ UNCHANGED <<hidden, fi>>
                     ELSE /\ hidden' = Clamp(c)
                          /\ fi' = fi + 1
                          /\ fpc' = IF fi + 1 < nchunks THEN "chunk" ELSE "final"
                          /\ ferr' = ferr
    /\ UNCHANGED <<store, num_layers, transformer, nchunks>>
    /\ UNCHANGED <<mgrVars, inferVars, httpVars, cfgVars, strVars>>

\* lines 422-445: the chunks are concatenated and clamped, the result is
\* validated twice and returned
ForwardFinal ==
    /\ fpc = "final"
    /\ LET out == Clamp(hidden)
           first == Validated("Final layer norm output", -1, out)
       IN  /\ hidden' = out
           /\ fpc' = "done"
           /\ IF ~validate_tensor(out)
              THEN /\ seen' = first
                   /\ ferr' = StageError("Final layer norm output", -1)
              ELSE /\ seen' = Append(first, [stage |-> "Final output", layer |-> -1,
                                             cond |-> out])
                   /\ ferr' = ferr
    /\ UNCHANGED <<store, num_layers, transformer, nchunks, fi>>
    /\ UNCHANGED <<mgrVars, inferVars, httpVars, cfgVars, strVars>>

\* The caller has the result; the transformer can be called again.
ForwardReturn ==
    /\ fpc = "done"
    /\ fpc' = "idle"
    /\ ferr' = NoStageError
    /\ seen' = <<>>
    /\ hidden' = "fin"
    /\ fi' = 0
    /\ UNCHANGED <<store, num_layers, transformer, nchunks>>
    /\ UNCHANGED <<mgrVars, inferVars, httpVars, cfgVars, strVars>>

\* The sets of at most k of the names in S.
RECURSIVE AtMost(_, _)
AtMost(S, k) ==
    IF k = 0 THEN {{}}
    ELSE LET smaller == AtMost(S, k - 1)
         IN  smaller \cup {a \cup {x} : a \in smaller, x \in S}

\* The weight stores: every expected parameter but at most MaxAbsent of them.
Stores(n) == {ExpectedParams(n) \ a : a \in AtMost(ExpectedParams(n), MaxAbsent)}

InitTransformer ==
    /\ tokenizerEntry = "tokenizer.json"
    /\ hyperInManifest = TRUE
    /\ ManagerInit(AllPaths)
    /\ InferIdle
    /\ HttpIdle
    /\ CfgIdle
    /\ StrIdle
    /\ num_layers \in 0..MaxLayers
    /\ store \in Stores(num_layers)
    /\ transformer = Unbuilt
    /\ fpc = "idle"
    /\ fi = 0
    /\ nchunks = 0
    /\ hidden = "fin"
    /\ ferr = NoStageError
    /\ seen = <<>>

NextTransformer ==
    \/ TransformerNew
    \/ ForwardCall
    \/ ForwardEmbed
    \/ ForwardLayer
    \/ ForwardPreNorm
    \/ ForwardChunk
    \/ ForwardFinal
    \/ ForwardReturn

SpecTransformer == InitTransformer /\ [][NextTransformer]_vars

\* ================================================ utils/config.rs
\* The hyperparameters of ModelConfig that get_model_config can take from the
\* model's config.json.
HyperFields ==
    {"hidden_size", "num_attention_heads", "num_hidden_layers", "intermediate_size",
     "vocab_size"}

\* A field of the manifest entry: absent, or set (to 1).
ManifestValues == {[k |-> "none", v |-> 0], [k |-> "some", v |-> 1]}

\* A member of config.json: absent, a number (2), or a string.
JsonValues == {[k |-> "none", v |-> 0], [k |-> "some", v |-> 2], [k |-> "str", v |-> 0]}

\* serde_json::Value::as_u64().map(|v| v as usize)
as_u64(j) == IF j.k = "some" THEN [k |-> "some", v |-> j.v] ELSE [k |-> "none", v |-> 0]

\* lines 126-130: one of the five fields of the manifest entry is None
any_is_none(m) == \E f \in HyperFields : m[f].k = "none"

\* AppConfig::get_model_config(model_key) for the manifest entry m and the
\* file config.json of the model
get_model_config(known, m, json) ==
    IF ~known
    THEN [state |-> "err", err |-> "Model config not found", fields |-> m]
    ELSE IF ~any_is_none(m)
    THEN [state |-> "ok", err |-> "none", fields |-> m]
    ELSE IF ~json.exists
    THEN [state |-> "err", err |-> "io", fields |-> m]
    ELSE [state |-> "ok", err |-> "none",
          fields |-> [f \in HyperFields |-> as_u64(json.fields[f])]]

\* A call of get_model_config, for a key of the manifest or another one.
GetModelConfigCall ==
    /\ model_config.state = "none"
    /\ \E known \in BOOLEAN :
         model_config' = get_model_config(known, manifest_hyper, config_json)
    /\ UNCHANGED <<manifest_hyper, config_json>>
    /\ UNCHANGED <<mgrVars, inferVars, httpVars, tfVars, strVars>>

InitConfig ==
    /\ tokenizerEntry = "tokenizer.json"
    /\ hyperInManifest = TRUE
    /\ ManagerInit(AllPaths)
    /\ InferIdle
    /\ HttpIdle
    /\ TfIdle
    /\ StrIdle
    /\ manifest_hyper \in [HyperFields -> ManifestValues]
    /\ config_json \in [exists : BOOLEAN, fields : [HyperFields -> JsonValues]]
    /\ model_config = [state |-> "none", err |-> "none", fields |-> manifest_hyper]

NextConfig == GetModelConfigCall

SpecConfig == InitConfig /\ [][NextConfig]_vars

\* ================================================ one YiCoderInference shared by requests
\* ---- bounds
NReqs == 2

\* The streaming requests served with the same YiCoderInference; request r
\* owns the channel r.
StreamReqs == 1..NReqs

\* set_stream_sender (infer.rs lines 18-26): the one sender slot of the
\* instance is overwritten with the sender of the request's channel
set_stream_sender(current, r) == r

StreamSetSender(r) ==
    /\ rpc[r] = "new"
    /\ stream_sender' = set_stream_sender(stream_sender, r)
    /\ rpc' = [rpc EXCEPT ![r] = "set"]
    /\ UNCHANGED <<cloned, rchan>>
    /\ UNCHANGED <<mgrVars, inferVars, httpVars, tfVars, cfgVars>>

\* infer, lines 83-103: with stream = Some(true) the sender in the slot is
\* cloned (an empty slot is the error sender_not_initialized) and the message
\* built
StreamInferClone(r) ==
    /\ rpc[r] = "set"
    /\ IF stream_sender = 0
       THEN /\ rpc' = [rpc EXCEPT ![r] = "failed"]
            /\ cloned' = cloned
       ELSE /\ rpc' = [rpc EXCEPT ![r] = "send"]
            /\ cloned' = [cloned EXCEPT ![r] = stream_sender]
    /\ UNCHANGED <<stream_sender, rchan>>
    /\ UNCHANGED <<mgrVars, inferVars, httpVars, tfVars, cfgVars>>

\* infer, lines 105-116: sender.send(message).await on the cloned sender,
\* which waits for a free slot of that channel
StreamInferSend(r) ==
    /\ rpc[r] = "send"
    /\ Len(rchan[cloned[r]]) < ChanCap
    /\ rchan' = [rchan EXCEPT ![cloned[r]] = Append(@, r)]
    /\ rpc' = [rpc EXCEPT ![r] = "sent"]
    /\ UNCHANGED <<stream_sender, cloned>>
    /\ UNCHANGED <<mgrVars, inferVars, httpVars, tfVars, cfgVars>>

\* send_stream_response (lines 131-157): a fragment of request r is pushed
\* with try_send on the sender that is in the slot at that moment
StreamSendResponse(r) ==
    /\ rpc[r] = "sent"
    /\ rpc' = [rpc EXCEPT ![r] = "done"]
    /\ IF stream_sender # 0 /\ Len(rchan[stream_sender]) < ChanCap
       THEN rchan' = [rchan EXCEPT ![stream_sender] = Append(@, r)]
       ELSE rchan' = rchan
    /\ UNCHANGED <<stream_sender, cloned>>
    /\ UNCHANGED <<mgrVars, inferVars, httpVars, tfVars, cfgVars>>

\* The transport of request r takes the next fragment from its channel.
StreamReceive(r) ==
    /\ rchan[r] # <<>>
    /\ rchan' = [rchan EXCEPT ![r] = Tail(@)]
    /\ UNCHANGED <<stream_sender, rpc, cloned>>
    /\ UNCHANGED <<mgrVars, inferVars, httpVars, tfVars, cfgVars>>

InitStream ==
    /\ tokenizerEntry = "tokenizer.json"
    /\ hyperInManifest = TRUE
    /\ ManagerInit(AllPaths)
    /\ InferIdle
    /\ HttpIdle
    /\ TfIdle
    /\ CfgIdle
    /\ stream_sender = 0
    /\ rpc = [r \in StreamReqs |-> "new"]
    /\ cloned = [r \in StreamReqs |-> 0]
    /\ rchan = [r \in StreamReqs |-> <<>>]

NextStream ==
    \E r \in StreamReqs :
        \/ StreamSetSender(r)
        \/ StreamInferClone(r)
        \/ StreamInferSend(r)
        \/ StreamSendResponse(r)
        \/ StreamReceive(r)

SpecStream == InitStream /\ [][NextStream]_vars

\* ================================================================ properties
\* ---- C1
\* C1: whenever get_model_status(id) is about to return for a supported id,
\* the is_enabled it returns is true exactly when every required file of id
\* is on disk.
C1_StatusReflectsDisk ==
    \A p \in Procs :
        (pc[p] = "gs_read" /\ Holds(locks["model_status"], p, "read")
            /\ arg[p] \in ModelIds)
        => (StatusGet(model_status, arg[p]).is_enabled <=> all_exists(disk, arg[p]))

\* ---- C2
\* C2: the step of download_model that sets is_enabled leaves every required
\* file of the id on disk.
C2_EnabledOnlyWithAllFiles ==
    [][\A p \in Procs : DownloadModelStore(p) => all_exists(disk', arg[p])]_vars

\* ---- C3
\* The model instances of id that are alive: the one in the manager's slot and
\* those built and held by running chat completions.
LiveInstances(id) ==
    ({slot[id]} \cup {held[p] : p \in {q \in Procs : arg[q] = id}}) \ {0}

C4_FailedDownloadChangesNothing ==
    [][\A p \in Procs :
          (DownloadModelFail(p) \/ DownloadModelReject(p) \/ DownloadModelReturnErr(p))
          => (slot' = slot /\ model_status' = model_status)]_vars

\* A download of an id whose slot already holds a handle has just failed.
C4_Witness ==
    \E p \in Procs :
        /\ pc[p] = "dl_err"
        /\ slot[arg[p]] # 0
        /\ model_status[arg[p]].is_enabled

\* ---- C5
\* C5: the Option a get is about to return is Some exactly when a download of
\* that id has returned Ok on this manager.
C5_GetSomeIffDownloaded ==
    \A p \in Procs :
        (pc[p] = "get_read" /\ \A l \in GetLocks(arg[p]) : Holds(locks[l], p, "read"))
        => ((GetCoderResult(slot, arg[p]) # 0) <=> (arg[p] \in downloaded))

\* A get is about to return the handle of a downloaded model while the other
\* model was never downloaded.
C5_Witness ==
    \E p \in Procs :
        /\ pc[p] = "get_read"
        /\ arg[p] \in downloaded
        /\ GetCoderResult(slot, arg[p]) # 0
        /\ downloaded # ModelIds

\* ---- C6
\* Task q is inside download_model(id) and has asked for the slot of id.
DownloadHoldsSlot(q, id) ==
    arg[q] = id /\ pc[q] \in {"dl_model", "dl_err"}

\* C6: a get for an id with no download of that same id at the slot is never
\* left waiting: it holds every lock it needs, whatever downloads of the other
\* id are running.
C6_GetNotBlockedByOtherDownload ==
    \A p \in Procs :
        (pc[p] = "get_read"
            /\ ~\E q \in Procs \ {p} : DownloadHoldsSlot(q, arg[p]))
        => \A l \in GetLocks(arg[p]) : Holds(locks[l], p, "read")

\* A get for one id can return while a download of the other id is constructing.
C6_Witness ==
    \E p \in Procs, q \in Procs :
        /\ pc[p] = "get_read"
        /\ \A l \in GetLocks(arg[p]) : Holds(locks[l], p, "read")
        /\ pc[q] = "dl_model"
        /\ arg[q] \in ModelIds \ {arg[p]}
        /\ Holds(locks[SlotLock(arg[q])], q, "write")
        /\ Holds(locks["model_status"], q, "write")

\* ---- C7
\* Task q runs a download or a status query for id and holds the status lock.
HoldsStatusFor(q, id) ==
    /\ arg[q] = id
    /\ \/ pc[q] \in {"dl_status", "dl_model", "dl_err"}
             /\ Holds(locks["model_status"], q, "write")
       \/ pc[q] = "gs_read" /\ Holds(locks["model_status"], q, "read")

\* C7: a download_model for one id is never waiting while a download or a
\* status query for the other id holds what it waits for.
C7_DistinctIdsNeverContend ==
    \A p \in Procs, q \in Procs :
        ~ /\ p # q
          /\ pc[p] = "dl_status"
          /\ arg[p] \in ModelIds
          /\ Waiting(locks["model_status"], p)
          /\ arg[q] \in ModelIds \ {arg[p]}
          /\ HoldsStatusFor(q, arg[q])

\* ---- C8
\* Task p is inside download_model(id) holding the slot of id for writing.
WritingSlot(p, id) ==
    /\ arg[p] = id
    /\ pc[p] \in {"dl_model", "dl_err"}
    /\ Holds(locks[SlotLock(id)], p, "write")

\* Task p is inside a get for id holding the slot of id for reading.
ReadingSlot(p, id) ==
    /\ arg[p] = id
    /\ pc[p] = "get_read"
    /\ Holds(locks[SlotLock(id)], p, "read")

\* C8: while a download holds the slot of an id no other download and no get
\* is at that slot.
C8_SlotWriteExclusive ==
    \A id \in ModelIds : \A p \in Procs : \A q \in Procs \ {p} :
        WritingSlot(p, id) => ~(WritingSlot(q, id) \/ ReadingSlot(q, id))

\* Two gets read the slot of the same id at the same time.
C8_Witness ==
    \E id \in ModelIds : \E p \in Procs, q \in Procs :
        p # q /\ ReadingSlot(p, id) /\ ReadingSlot(q, id)

\* ---- C9
\* The parameter combinations the contract calls invalid.
InvalidParams(ps) ==
    \/ ps.temperature.k # "none"
          /\ (FLe(ps.temperature, Fin(0)) \/ FGt(ps.temperature, Fin(20000)))
    \/ ps.top_p.k # "none"
          /\ (FLe(ps.top_p, Fin(0)) \/ FGt(ps.top_p, Fin(10000)))
    \/ ps.n = SomeV(0)
    \/ ps.max_tokens = SomeV(0)

\* C9: an infer call with an invalid parameter never tokenizes, runs a forward
\* pass, samples or pushes on the channel, and ends in InvalidParameter.
C9_InvalidRejectedBeforeWork ==
    (ipc # "off" /\ InvalidParams(params))
    => /\ tokenized = 0
       /\ forwards = 0
       /\ samples = 0
       /\ sendAttempts = 0
       /\ (ipc = "done" => result = "InvalidParameter")

\* ---- C10
\* C10: an infer call given a NaN or infinite temperature never returns Ok,
\* and the boundary values 0.0001 and 2.0 are not rejected.
C10_NonFiniteTemperatureRejected ==
    /\ (ipc = "done" /\ params.temperature \in {NaN, PosInf}) => result # "Ok"
    /\ (ipc = "done" /\ impl = "YiCoderInference"
           /\ params.temperature \in {Fin(1), Fin(20000)}
           /\ ~InvalidParams(params) /\ params.stream # SomeV(TRUE))
       => result = "Ok"

\* ---- C11
\* C11: sample_tokens given a negative temperature never samples a token and
\* returns an error.
C11_InvalidTemperatureNeverSampled ==
    (impl = "DeepSeekCoderInference"
        /\ params.temperature.k = "fin" /\ params.temperature.v < 0)
    => (samples = 0 /\ (ipc = "done" => result # "Ok"))

\* ---- C12
\* The max_tokens an infer call runs under: the parameter, or the default of
\* the implementation.
TokenLimit(i, ps) ==
    IF i = "YiCoder" THEN YiMaxTokens(ps)
    ELSE IF i = "YiCoderProcess" THEN ProcessMaxTokens(ps)
    ELSE IF i = "YiCoderInference"
    THEN UnwrapOr(ps.max_tokens, SomeV(DefaultMaxTokens)).v
    ELSE DeepseekMaxTokens(ps)

\* C12: an infer call never has generated, put into its output or pushed on
\* the channel more tokens than max_tokens.
C12_GeneratedWithinMaxTokens ==
    ipc # "off"
    => /\ generated <= TokenLimit(impl, params)
       /\ Len(output) <= TokenLimit(impl, params)
       /\ sendAttempts <= TokenLimit(impl, params)

\* ---- C13
\* C13: a non-streaming infer call that returns Ok under a limit of one or
\* more tokens returns a message of exactly max_tokens generated tokens.
C13_NonStreamingRunsToMaxTokens ==
    (ipc = "done" /\ result = "Ok"
        /\ impl \in Impls \ {"YiCoderInference"}
        /\ ~UnwrapOr(params.stream, SomeV(FALSE)).v
        /\ TokenLimit(impl, params) >= 1)
    => Len(output) = TokenLimit(impl, params)

\* ---- C14
\* C14: a streaming infer call that has started always returns, whether or
\* not the consumer ever receives.
C14_StreamingCallReturns ==
    (ipc \notin {"off", "done"} /\ UnwrapOr(params.stream, SomeV(FALSE)).v)
        ~> (ipc = "done")

\* ---- C15
\* C15: an infer call that returns Ok returns at least one message.
C15_SuccessReturnsMessages ==
    (ipc = "done" /\ result = "Ok") => returned >= 1


\* ------------------------------------------------------------ downloads
\* The files a sequence names, as a set.
Range(seq) == {seq[i] : i \in 1..Len(seq)}

\* C16: a download never fetches a file that is already in the cache (stated
\* for the call in which every fetch succeeds, which attempts the most files: a
\* failing fetch only cuts the sequence short), and a download that follows a
\* successful download of the same id with the same manifest performs no hub
\* fetch at all.
C16_DownloadFetchesOnlyMissing ==
    /\ [](\A id \in ModelIds :
            \A f \in Range(download_all_model_files(
                             disk, id, model_paths(id, tokenizerEntry),
                             Len(model_paths(id, tokenizerEntry))).attempted) :
                <<id, f>> \notin disk)
    /\ [][\A p \in Procs :
             DownloadModelStore(p) =>
                 \A k \in 0..Len(model_paths(arg[p], tokenizerEntry)) :
                     ModelNew(arg[p], disk', tokenizerEntry, hyperInManifest,
                              k, TRUE).fetched = <<>>]_vars

\* download_model("yi-coder") has succeeded twice in a row, the second call
\* replacing the instance of the first, on a cache nobody else wrote to.
C16_Witness ==
    /\ downloaded = {"yi-coder"}
    /\ slot["yi-coder"] = 1 + 1
    /\ diskOps = 0
    /\ \A f \in Range(model_paths("yi-coder", tokenizerEntry)) : <<"yi-coder", f>> \in disk

\* No file is named twice in the sequence.
NoRepeat(seq) == \A i \in 1..Len(seq) : \A j \in 1..Len(seq) : seq[i] = seq[j] => i = j

\* C17: within one download call the hub fetch of each missing file is
\* attempted at most once, and the first failing fetch ends the call: the
\* failing file is the last one attempted, it is attempted once, and the cache
\* gains exactly the files fetched before it.
C17_FetchFailurePropagatedWithoutRetry ==
    \A id \in ModelIds : \A k \in 0..MaxFetches(disk, id, tokenizerEntry) :
        LET r == ModelLoaderNew(disk, id, tokenizerEntry, hyperInManifest, k)
        IN  /\ NoRepeat(r.attempted)
            /\ r.disk = disk \cup {<<id, f>> : f \in Range(r.fetched)}
            /\ r.ok => r.attempted = r.fetched
            /\ (~r.ok /\ GetModelConfigOk(disk, id, tokenizerEntry, hyperInManifest))
                   => /\ Len(r.fetched) = k
                      /\ Len(r.attempted) = k + 1
                      /\ SubSeq(r.attempted, 1, k) = r.fetched

\* The constructor called by download_model("yi-coder") has returned an error
\* and files of the model are still missing: one of its fetches failed, after
\* the weight file had been found or fetched.
C17_Witness ==
    /\ pc[Main] = "dl_err"
    /\ arg[Main] = "yi-coder"
    /\ hyperInManifest
    /\ diskOps = 0
    /\ <<"yi-coder", "model.safetensors">> \in disk
    /\ files_to_download(disk, "yi-coder", tokenizerEntry) # <<>>

\* ------------------------------------------------------------ API boundary
\* The request has reached the handler: no middleware, or it let it through.
ReachedHandler == ~wrapped \/ invoked

\* C18: a chat completion that fails because the model id is unknown or
\* because parameter validation fails is answered with the status of its
\* error, a client-error status (400 for the AppError kinds), never with a
\* server-error status, and the handler does not crash.
C18_ClientErrorsAnsweredAsClientErrors ==
    /\ (hpc = "done" /\ err \in {"InvalidModel", "InvalidParameter"})
           => (response = status_code(err) /\ ~crashed)
    /\ (hpc = "done" /\ err = "ModelNotFound")
           => (response \in 400..499 /\ ~crashed)

\* C19: a request with an empty messages list is answered 400 by the handler,
\* no model is looked up, constructed or run for it, and it causes no crash.
C19_EmptyMessagesRejectedFirst ==
    (hpc # "idle" /\ http_req.messages = 0)
        => /\ ~lookedUp
           /\ ~crashed
           /\ (hpc = "done" /\ ReachedHandler) => response = 400

\* The header carries 'Bearer <key>' for this key.
IsBearer(h, key) == h.some /\ h.v = BearerPrefix \o key

\* The header carries 'Bearer <key>' for some key.
CarriesKey(h) == \E key \in {TestKey, WrongKey, NonAsciiKey} : IsBearer(h, key)

\* The middleware has answered or passed on the request being served.
AuthDecided == wrapped /\ hpc \notin {"idle", "auth"}

\* C20 as stated: the wrapped service is invoked exactly when the header is
\* 'Bearer <key>' with the key equal to the configured API_KEY; a missing or
\* wrong key is answered 401 and an unconfigured API_KEY 500, the service not
\* being invoked in either case.
C20_InvokedIffKeyMatches ==
    AuthDecided =>
        LET h == http_req.authorization
            configured == auth_seen.ok
        IN  /\ invoked <=> (configured /\ IsBearer(h, auth_seen.v))
            /\ (~CarriesKey(h) \/ (configured /\ ~IsBearer(h, auth_seen.v)))
                   => (response = 401 /\ ~invoked)
            /\ ~configured => (response = 500 /\ ~invoked)

\* The key is made of visible ASCII characters.
VisibleKey(key) == \A i \in 1..Len(key) : key[i] # "e-acute"

\* The header is readable as 'Bearer <key>' for some key of visible characters.
CarriesVisibleKey(h) ==
    \E key \in {TestKey, WrongKey, NonAsciiKey} : IsBearer(h, key) /\ VisibleKey(key)

\* C20 amended: the wrapped service is invoked exactly when the header reads
\* 'Bearer <key>' in visible ASCII characters and the key equals the configured
\* API_KEY; a request without such a header is answered 401 whether or not
\* API_KEY is configured, a request with a key is answered 500 when API_KEY is
\* not configured and 401 when the key differs; the service is invoked in none
\* of these cases.
C20_InvokedIffVisibleKeyMatches ==
    AuthDecided =>
        LET h == http_req.authorization
            configured == auth_seen.ok
            matches == configured /\ IsBearer(h, auth_seen.v) /\ VisibleKey(auth_seen.v)
        IN  /\ invoked <=> matches
            /\ ~CarriesVisibleKey(h) => (response = 401 /\ ~invoked)
            /\ (CarriesVisibleKey(h) /\ ~configured) => (response = 500 /\ ~invoked)
            /\ (CarriesVisibleKey(h) /\ configured /\ ~matches)
                   => (response = 401 /\ ~invoked)

\* A request with the configured key went through the middleware and was served.
C20_Witness ==
    /\ AuthDecided
    /\ invoked
    /\ hpc = "done"
    /\ http_req.authorization = HeaderSome(BearerPrefix \o TestKey)
    /\ response = 200

\* The request being served by chat_completion carries no temperature.
NoTemperatureRequest ==
    /\ handler = "chat_completion"
    /\ hpc = "complete"
    /\ http_req.temperature.k = "none"

YiStreaming == impl = "YiCoder" /\ UnwrapOr(params.stream, SomeV(FALSE)).v

\* C22: in a streaming infer call one fragment is pushed per decode step, in
\* generation order, and generation stops at the first push that fails because
\* the channel is closed or full: when the call has returned, every decode
\* step made one push, the channel holds the fragments of all steps but
\* possibly the last in the order they were generated, a missing last fragment
\* was refused by a closed or full channel, and no forward pass was run after
\* the refused push.
C22_OneFragmentPerDecodeStep ==
    (YiStreaming /\ ipc = "done" /\ result = "Ok")
        => /\ sendAttempts = generated
           /\ Len(chan) >= generated - 1
           /\ chan = SubSeq(output, 1, Len(chan))
           /\ Len(chan) < generated
                  => try_send(sender, chanClosed, chan) \in {"channel_closed", "buffer_full"}
           /\ forwards = 1 + Len(chan)


\* C23: during iterative decoding every token is sampled from the logits of a
\* forward pass over the prompt followed by all the tokens sampled before it in
\* the call: when the k-th token is drawn, the logits at hand were computed over
\* the k-1 earlier tokens, never over a shorter sequence.
C23_SampledFromLogitsOfAllEarlierTokens ==
    [][(impl \in {"YiCoder", "DeepseekCoder"} /\ samples' = samples + 1)
           => Len(logitsSeq) = samples]_vars


\* C28: in a streaming infer call the content of the message returned is the
\* concatenation, in order, of the fragments that were pushed onto the channel
\* during the call, also when a failed push ended the generation.  (Nothing is
\* received from the channel of a YiCoder call, so the channel holds every
\* fragment pushed.)
C28_ReturnedTextIsPushedText ==
    (YiStreaming /\ ipc = "done" /\ result = "Ok") => output = chan


\* C24: constructing the transformer stack never fails because a named weight
\* is absent from the weight store: whatever subset of the expected parameter
\* names is absent, the construction succeeds and exactly the absent
\* parameters are zero tensors.
C24_ConstructionToleratesAbsentWeights ==
    transformer.state # "none"
        => /\ transformer.absent = {}
           /\ transformer.err \notin {"LayerError", "CannotFindTensor"}
           /\ transformer.state = "built"
                  => transformer.zeros = ExpectedParams(num_layers) \ store

\* The stage boundaries a forward pass over n layers and c chunks validates,
\* in order.
RECURSIVE LayerStages(_, _)
LayerStages(i, n) ==
    IF i >= n THEN <<>>
    ELSE <<[stage |-> "Layer output", layer |-> i]>> \o LayerStages(i + 1, n)

RECURSIVE ChunkStages(_, _)
ChunkStages(i, c) ==
    IF i >= c THEN <<>>
    ELSE <<[stage |-> "Layer norm input chunk", layer |-> i],
           [stage |-> "Layer norm chunk output", layer |-> i]>> \o ChunkStages(i + 1, c)

StageOrder(n, c) ==
    <<[stage |-> "Embeddings output", layer |-> -1]>>
        \o LayerStages(0, n)
        \o <<[stage |-> "Final layer norm input", layer |-> -1]>>
        \o ChunkStages(0, c)
        \o <<[stage |-> "Final layer norm output", layer |-> -1],
             [stage |-> "Final output", layer |-> -1]>>

C26_BackFillsOnlyAbsentFields ==
    model_config.state = "ok"
        => \A f \in HyperFields :
             model_config.fields[f] =
                 IF manifest_hyper[f].k # "none"
                 THEN manifest_hyper[f]
                 ELSE as_u64(config_json.fields[f])


\* C29: stream fragments are delivered only to the channel of the request that
\* generated them: with several streaming requests on the same inference
\* instance, each calling set_stream_sender and then infer, every fragment on
\* the channel of a request was produced for that request.
C29_FragmentsOnOwnChannel ==
    \A c \in StreamReqs : \A i \in 1..Len(rchan[c]) : rchan[c][i] = c


\* C27: the manager's use of its locks is free of deadlock: under any
\* interleaving of download_model, get_model_status, is_model_available,
\* get_all_model_status, get_yi_coder and get_deepseek_coder calls by
\* concurrent tasks, every call that has started eventually returns: no task
\* stays inside a call forever, each is between two calls again and again.
C27_EveryCallReturns ==
    \A p \in Procs : []<>(pc[p] = "idle")

\* A task waits in the queue of the status map's lock while another task,
\* inside download_model, holds that lock and the write lock of a slot.
C27_Witness ==
    \E p \in Procs, q \in Procs :
        /\ p # q
        /\ Waiting(locks["model_status"], p)
        /\ locks["model_status"].w = q
        /\ locks[SlotLock(arg[q])].w = q


\* C30: download_model changes only the state of the id it is called for: a
\* call for an id that is not in the status map returns UnknownModel and
\* leaves the status map and both slots as they are, and a call for a
\* supported id, whether the construction succeeds or fails, leaves the slot
\* and the status entry of the other id as they are.
C30_DownloadTouchesOnlyItsId ==
    [][\A p \in Procs :
          /\ (DownloadModelReject(p) /\ arg[p] \notin DOMAIN model_status)
                 => /\ DownloadBranch(model_status, arg[p]) = "UnknownModel"
                    /\ model_status' = model_status
                    /\ slot' = slot
          /\ (DownloadModelStore(p) \/ DownloadModelFail(p))
                 => \A id \in ModelIds \ {arg[p]} :
                      /\ slot'[id] = slot[id]
                      /\ model_status'[id] = model_status[id]]_vars

\* Both models have been downloaded, one after the other: the second download
\* found the instance and the flags of the first and left them in place.
C30_Witness ==
    /\ downloaded = ModelIds
    /\ \A id \in ModelIds :
         /\ slot[id] # 0
         /\ model_status[id].is_cached
         /\ model_status[id].is_enabled
    /\ slot["yi-coder"] # slot["deepseek-coder"]
====
